---- MODULE Spec2Model ----
(***************************************************************************)
(* Dashboard mode of the packet sniffer (src/src/main.rs): the capture     *)
(* thread capture_packets_with_stats, which folds every accepted frame     *)
(* into the shared NetworkStats and the recent-record buffer, and the      *)
(* render loop of start_dashboard_mode / display_dashboard, which reads    *)
(* both under their mutexes.  After the dashboard come the functions       *)
(* detect_threat_level, should_capture_packet, export_to_csv,              *)
(* display_bandwidth_graph and display_packet_size_analysis, each called   *)
(* on its own on arguments drawn from a set, and the run of main through  *)
(* start_sniffing or start_dashboard_mode to the exit of the process.      *)
(*                                                                         *)
(* Conventions.  Option<T> is a sequence of length 0 (None) or 1 (Some).   *)
(* An IPv4 address is the tuple of its four octets; its to_string() is the *)
(* dotted decimal form, so a starts_with test on the string is a test on   *)
(* leading octets.  Time is counted in whole seconds: `clock` is the       *)
(* monotone Instant, a timestamp is a reading of the wall clock.  A        *)
(* bandwidth sample total/elapsed is kept as the fraction [num, den] and   *)
(* becomes the f64 quotient where the graph computes with it.              *)
(***************************************************************************)
EXTENDS Integers, Sequences, FiniteSets, TLC

\* ---------------------------------------------------------------- bounds
\* Frames the capture source delivers and the filter accepts in one
\* behaviour, after the behaviour's first state.
MaxIngest == 2
\* Records in the slice given to export_to_csv.
MaxRecords == 2
\* Seconds that pass in one behaviour, after its first state.
MaxClock == 1
\* The packet count limit, when there is one.
CountLimit == 2
\* Sizes in the packet_sizes given to display_packet_size_analysis.
MaxSizes == 3

\* ------------------------------------------------------ program constants
PacketSizesCap == 1000
ThreatAlertsCap == 100
BandwidthCap == 100
RecentCap == 1000
SampleEvery == 100

\* ------------------------------------------------------------ Option<T>
None == <<>>
Some(x) == <<x>>
IsSome(o) == Len(o) = 1
Unwrap(o) == o[1]
\* Option::or
OptOr(a, b) == IF IsSome(a) THEN a ELSE b
\* Option::unwrap_or
UnwrapOr(o, d) == IF IsSome(o) THEN o[1] ELSE d

Min(a, b) == IF a < b THEN a ELSE b

\* ---------------------------------------------------------- ThreatLevel
\* #[derive(PartialOrd)]: variants compare by declaration order.
ThreatLevels == <<"Safe", "Low", "Medium", "High", "Critical">>
ThreatRank(l) == CHOOSE i \in 1..Len(ThreatLevels) : ThreatLevels[i] = l
ThreatGt(a, b) == ThreatRank(a) > ThreatRank(b)

\* ------------------------------------------------------------ classifier
\* The prefixes "::1" and "fe80::" start no dotted IPv4 string.
is_private_ip(ip) ==
    \/ ip[1] = 10
    \/ (ip[1] = 192 /\ ip[2] = 168)
    \/ (ip[1] = 172 /\ ip[2] = 16)
    \/ ip[1] = 127

\* Variant of PortRisk: the high ports start at 49152 itself.
PortRiskFrom49152(port) ==
    IF port \in {1433, 3389, 5900, 23, 135, 139, 445} THEN 3
    ELSE IF port \in {21, 25, 110, 143, 993, 995} THEN 2
    ELSE IF port >= 49152 THEN 1
    ELSE 0

PortRisk(port) ==
    IF port \in {1433, 3389, 5900, 23, 135, 139, 445} THEN 3
    ELSE IF port \in {21, 25, 110, 143, 993, 995} THEN 2
    ELSE IF port > 49152 THEN 1
    ELSE 0

\* Lines 1013-1017: +1 for a destination that is not private.
NonPrivateIncrement(p) ==
    IF IsSome(p.dst_ip) /\ ~is_private_ip(Unwrap(p.dst_ip)) THEN 1 ELSE 0

\* Variant of PatternIncrement: the prefixes count for a destination that
\* is not private only.
PatternIncrementOnlyPublic(p) ==
    IF IsSome(p.dst_ip) /\ ~is_private_ip(Unwrap(p.dst_ip)) /\
       LET ip == Unwrap(p.dst_ip) IN
         \/ (ip[1] = 10 /\ ip[2] = 0 /\ ip[3] = 0)
         \/ (ip[1] = 169 /\ ip[2] = 254)
    THEN 2 ELSE 0

\* Lines 1019-1022: +2 for a destination starting with "10.0.0." or "169.254.".
PatternIncrement(p) ==
    IF IsSome(p.dst_ip) /\
       LET ip == Unwrap(p.dst_ip) IN
         \/ (ip[1] = 10 /\ ip[2] = 0 /\ ip[3] = 0)
         \/ (ip[1] = 169 /\ ip[2] = 254)
    THEN 2 ELSE 0

\* Variant of risk_score: the port scored is the source port, else the
\* destination port.
risk_scoreSourcePortFirst(p) ==
    LET port == OptOr(p.src_port, p.dst_port)
        s_port == IF IsSome(port) THEN PortRisk(Unwrap(port)) ELSE 0
        s_priv == NonPrivateIncrement(p)
        s_pat  == PatternIncrement(p)
        s_size == IF p.packet_size > 1500 \/ p.packet_size < 64 THEN 1 ELSE 0
        s_prot == IF p.protocol = "ICMP" THEN 1
                  ELSE IF p.protocol = "UDP" /\ p.dst_port = Some(53) THEN 0
                  ELSE IF p.protocol = "UDP" THEN 1
                  ELSE 0
    IN s_port + s_priv + s_pat + s_size + s_prot

risk_score(p) ==
    LET port == OptOr(p.dst_port, p.src_port)
        s_port == IF IsSome(port) THEN PortRisk(Unwrap(port)) ELSE 0
        s_priv == NonPrivateIncrement(p)
        s_pat  == PatternIncrement(p)
        s_size == IF p.packet_size > 1500 \/ p.packet_size < 64 THEN 1 ELSE 0
        s_prot == IF p.protocol = "ICMP" THEN 1
                  ELSE IF p.protocol = "UDP" /\ p.dst_port = Some(53) THEN 0
                  ELSE IF p.protocol = "UDP" THEN 1
                  ELSE 0
    IN s_port + s_priv + s_pat + s_size + s_prot

detect_threat_level(p) ==
    LET s == risk_score(p) IN
    IF s <= 1 THEN "Safe"
    ELSE IF s <= 3 THEN "Low"
    ELSE IF s <= 5 THEN "Medium"
    ELSE IF s <= 7 THEN "High"
    ELSE "Critical"

\* ---------------------------------------------------------------- frames
\* A captured frame, described by what the pnet parsers make of it:
\*   eth_ok    EthernetPacket::new succeeded
\*   ethertype "Ipv4" | "Ipv6" | "Arp"
\*   ip_ok     Ipv4Packet::new succeeded
\*   next      "Tcp" | "Udp" | "Icmp" | "Igmp"  (next level protocol)
\*   l4_ok     TcpPacket::new / UdpPacket::new / IcmpPacket::new succeeded
\*   len       packet.len()
\* Each parser refuses a buffer shorter than its header: 14 bytes of
\* Ethernet, then 20 of IPv4, then 20 of TCP, 8 of UDP or 4 of ICMP.  A
\* frame too short for a header does not parse at that level, whatever
\* the description says.
Frame(eth_ok, ethertype, ip_ok, src, dst, next, l4_ok, sport, dport, len) ==
    [eth_ok |-> eth_ok /\ len >= 14, ethertype |-> ethertype,
     ip_ok |-> ip_ok /\ len >= 14 + 20,
     src |-> src, dst |-> dst, next |-> next,
     l4_ok |-> l4_ok /\ len >= 14 + 20 + (CASE next = "Tcp" -> 20
                                               [] next = "Udp" -> 8
                                               [] OTHER -> 4),
     sport |-> sport, dport |-> dport, len |-> len]

HostA == <<192, 168, 1, 5>>
HostB == <<192, 168, 1, 1>>
HostC == <<8, 8, 8, 8>>

FrameWeb   == Frame(TRUE, "Ipv4", TRUE, HostA, HostB, "Tcp", TRUE, 5000, 80, 100)
FrameUdp   == Frame(TRUE, "Ipv4", TRUE, HostA, HostB, "Udp", TRUE, 5000, 80, 42)
FrameBack  == Frame(TRUE, "Ipv4", TRUE, HostB, HostA, "Tcp", TRUE, 80, 5000, 100)
FrameRdp   == Frame(TRUE, "Ipv4", TRUE, HostA, HostC, "Tcp", TRUE, 5000, 3389, 120)
FrameShort == Frame(FALSE, "Ipv4", FALSE, HostA, HostB, "Tcp", FALSE, 0, 0, 10)
FrameArp   == Frame(TRUE, "Arp", FALSE, HostA, HostB, "Tcp", FALSE, 0, 0, 60)
FrameV6    == Frame(TRUE, "Ipv6", FALSE, HostA, HostB, "Tcp", FALSE, 0, 0, 60)

\* The frames the capture source may deliver.
Frames == {FrameWeb, FrameUdp, FrameBack, FrameShort, FrameArp, FrameV6}

\* ---------------------------------------------------------------- filter
NoFilter == [protocol |-> None, port |-> None]

\* str::to_lowercase on a text of letters of the basic Latin alphabet, the
\* text being a sequence of characters: each capital letter becomes its
\* small letter and every other character stays.
UpperLetters == <<"A", "B", "C", "D", "E", "F", "G", "H", "I", "J", "K", "L", "M",
                  "N", "O", "P", "Q", "R", "S", "T", "U", "V", "W", "X", "Y", "Z">>
LowerLetters == <<"a", "b", "c", "d", "e", "f", "g", "h", "i", "j", "k", "l", "m",
                  "n", "o", "p", "q", "r", "s", "t", "u", "v", "w", "x", "y", "z">>
LowerChar(c) ==
    IF \E i \in DOMAIN UpperLetters : UpperLetters[i] = c
    THEN LowerLetters[CHOOSE i \in DOMAIN UpperLetters : UpperLetters[i] = c]
    ELSE c
ToLower(s) == [i \in 1..Len(s) |-> LowerChar(s[i])]

\* The port filter part of should_capture_packet, reached when the protocol
\* filter did not already decide.
PortFilterMatch(f, a) ==
    IF ~IsSome(a.port) THEN TRUE
    ELSE IF f.next \in {"Tcp", "Udp"} THEN
        IF f.l4_ok THEN f.sport = Unwrap(a.port) \/ f.dport = Unwrap(a.port)
        ELSE TRUE
    ELSE FALSE

\* Variant of should_capture_packet: without any filter a frame that is
\* not IPv4 is accepted.
should_capture_packetAllWhenUnfiltered(f, a) ==
    IF ~f.eth_ok THEN TRUE
    ELSE IF f.ethertype # "Ipv4" THEN ~IsSome(a.protocol) /\ ~IsSome(a.port)
    ELSE IF ~f.ip_ok THEN TRUE
    ELSE IF IsSome(a.protocol) THEN
        LET pf == ToLower(Unwrap(a.protocol)) IN
        IF pf = <<"h", "t", "t", "p">> THEN
            f.next = "Tcp" /\ f.l4_ok /\ (f.dport \in {80, 8080} \/ f.sport \in {80, 8080})
        ELSE IF pf = <<"d", "n", "s">> THEN
            f.next = "Udp" /\ f.l4_ok /\ (f.dport = 53 \/ f.sport = 53)
        ELSE
            LET protocol_match ==
                    CASE pf = <<"t", "c", "p">> -> f.next = "Tcp"
                      [] pf = <<"u", "d", "p">> -> f.next = "Udp"
                      [] pf = <<"i", "c", "m", "p">> -> f.next = "Icmp"
                      [] OTHER -> TRUE
            IN IF ~protocol_match THEN FALSE ELSE PortFilterMatch(f, a)
    ELSE PortFilterMatch(f, a)

should_capture_packet(f, a) ==
    IF ~f.eth_ok THEN TRUE
    ELSE IF f.ethertype # "Ipv4" THEN FALSE
    ELSE IF ~f.ip_ok THEN TRUE
    ELSE IF IsSome(a.protocol) THEN
        LET pf == ToLower(Unwrap(a.protocol)) IN
        IF pf = <<"h", "t", "t", "p">> THEN
            f.next = "Tcp" /\ f.l4_ok /\ (f.dport \in {80, 8080} \/ f.sport \in {80, 8080})
        ELSE IF pf = <<"d", "n", "s">> THEN
            f.next = "Udp" /\ f.l4_ok /\ (f.dport = 53 \/ f.sport = 53)
        ELSE
            LET protocol_match ==
                    CASE pf = <<"t", "c", "p">> -> f.next = "Tcp"
                      [] pf = <<"u", "d", "p">> -> f.next = "Udp"
                      [] pf = <<"i", "c", "m", "p">> -> f.next = "Icmp"
                      [] OTHER -> TRUE
            IN IF ~protocol_match THEN FALSE ELSE PortFilterMatch(f, a)
    ELSE PortFilterMatch(f, a)

\* --------------------------------------------------------------- decoder
\* analyze_packet_advanced: the record of a frame, numbered packet_num and
\* stamped with the current time.  Fields no operation of the dashboard
\* path reads (MAC addresses, flags, payload size, description, geo hint)
\* are left out.
\* Lines 943 and 953 write the protocol with {:?}: EtherType and
\* IpNextHeaderProtocol are tuple structs of one number with a derived
\* Debug, so ARP (0x0806) reads EtherType(2054) and IGMP (2)
\* IpNextHeaderProtocol(2).
EtherTypeDebug(ethertype) ==
    "EtherType(" \o ToString(CASE ethertype = "Ipv4" -> 2048
                                [] ethertype = "Arp" -> 2054
                                [] ethertype = "Ipv6" -> 34525) \o ")"

IpNextHeaderProtocolDebug(next) ==
    "IpNextHeaderProtocol(" \o ToString(CASE next = "Icmp" -> 1
                                           [] next = "Igmp" -> 2
                                           [] next = "Tcp" -> 6
                                           [] next = "Udp" -> 17) \o ")"

ProtocolName(f) ==
    IF ~f.eth_ok THEN "Unknown"
    ELSE IF f.ethertype = "Ipv6" THEN "IPv6"
    ELSE IF f.ethertype # "Ipv4" THEN EtherTypeDebug(f.ethertype)
    ELSE IF ~f.ip_ok THEN "Unknown"
    ELSE CASE f.next = "Tcp" -> "TCP"
           [] f.next = "Udp" -> "UDP"
           [] f.next = "Icmp" -> "ICMP"
           [] OTHER -> "IPv4-" \o IpNextHeaderProtocolDebug(f.next)

\* Line 870: Utc::now() reads the wall clock of the system, which the
\* system may set forward or back at any time (by hand, by NTP): a
\* reading is any second, whatever the reading before it was.
Utc == 0..MaxClock

analyze_packet_advanced(f, packet_num, now) ==
    LET ip == f.eth_ok /\ f.ethertype = "Ipv4" /\ f.ip_ok
        ports == ip /\ f.next \in {"Tcp", "Udp"} /\ f.l4_ok
        raw == [timestamp |-> now,
                packet_number |-> packet_num,
                src_ip |-> IF ip THEN Some(f.src) ELSE None,
                dst_ip |-> IF ip THEN Some(f.dst) ELSE None,
                protocol |-> ProtocolName(f),
                src_port |-> IF ports THEN Some(f.sport) ELSE None,
                dst_port |-> IF ports THEN Some(f.dport) ELSE None,
                packet_size |-> f.len,
                threat_level |-> "Safe"]
    IN [raw EXCEPT !.threat_level = detect_threat_level(raw)]

\* ---------------------------------------------------------- NetworkStats
\* HashMap: a function whose domain is the set of keys present.
EmptyMap == [k \in {} |-> 0]
\* *map.entry(k).or_insert(0) += 1
Bump(map, k) ==
    IF k \in DOMAIN map THEN [map EXCEPT ![k] = @ + 1] ELSE (k :> 1) @@ map

\* f64 values total/elapsed, kept exact.
Rate(num, den) == [num |-> num, den |-> den]
ZeroRate == Rate(0, 1)
RateGt(a, b) == a.num * b.den > b.num * a.den

\* The NetworkStats built by start_dashboard_mode.
NewStats(now) ==
    [total_packets |-> 0,
     total_bytes |-> 0,
     protocol_counts |-> EmptyMap,
     top_talkers |-> EmptyMap,
     start_time |-> now,
     bandwidth_history |-> <<>>,
     connections |-> EmptyMap,
     threat_alerts |-> <<>>,
     port_activity |-> EmptyMap,
     packet_sizes |-> <<>>,
     current_connections |-> 0,
     peak_bandwidth |-> ZeroRate,
     peak_packets_per_sec |-> ZeroRate]

\* Variants of TrimOldest: the limit off by one; the newest element removed.
TrimOldestLate(v, cap) == IF Len(v) > cap + 1 THEN Tail(v) ELSE v
TrimNewest(v, cap) == IF Len(v) > cap THEN SubSeq(v, 1, Len(v) - 1) ELSE v

\* Vec::remove(0) once the vector is longer than cap.
TrimOldest(v, cap) == IF Len(v) > cap THEN Tail(v) ELSE v

\* format!("{}:{}-{}:{}", src_ip, src_port.unwrap_or(0), dst_ip, dst_port.unwrap_or(0))
connection_key(p) ==
    <<Unwrap(p.src_ip), UnwrapOr(p.src_port, 0), Unwrap(p.dst_ip), UnwrapOr(p.dst_port, 0)>>

\* format!("Suspicious {} traffic from {} to {}", ...), as its three arguments.
\* An absent address, None here, is printed as "unknown", which no address
\* string equals.
alert_msg(p) == <<p.protocol, p.src_ip, p.dst_ip>>

\* Variant of UpdateTotals: total_bytes assigned, not added to.
UpdateTotalsAssign(s, p) ==
    [s EXCEPT !.total_packets = @ + 1,
              !.total_bytes = p.packet_size,
              !.protocol_counts = Bump(@, p.protocol),
              !.packet_sizes = Append(@, p.packet_size)]

\* Variant of UpdateTotals: a record of protocol "Unknown" is not counted
\* by protocol.
UpdateTotalsSkipsUnknown(s, p) ==
    [s EXCEPT !.total_packets = @ + 1,
              !.total_bytes = @ + p.packet_size,
              !.protocol_counts = IF p.protocol = "Unknown" THEN @ ELSE Bump(@, p.protocol),
              !.packet_sizes = Append(@, p.packet_size)]

\* The stats critical section of capture_packets_with_stats, cut where a
\* vector has been pushed to and not yet trimmed.
\* Lines 390-395: totals, protocol count, push of the packet size.
UpdateTotals(s, p) ==
    [s EXCEPT !.total_packets = @ + 1,
              !.total_bytes = @ + p.packet_size,
              !.protocol_counts = Bump(@, p.protocol),
              !.packet_sizes = Append(@, p.packet_size)]

\* Variant of TrackActivity: an alert is recorded above Low only.
TrackActivityAlertsAboveLow(s, p) ==
    LET port == OptOr(p.dst_port, p.src_port) IN
    [s EXCEPT !.packet_sizes = TrimOldest(@, PacketSizesCap),
              !.port_activity = IF IsSome(port) THEN Bump(@, Unwrap(port)) ELSE @,
              !.top_talkers = IF IsSome(p.src_ip) THEN Bump(@, Unwrap(p.src_ip)) ELSE @,
              !.threat_alerts =
                  IF p.threat_level \notin {"Safe", "Low"}
                  THEN Append(@, <<p.timestamp, alert_msg(p), p.threat_level>>)
                  ELSE @]

\* Variant of TrackActivity: the source port is preferred.
TrackActivitySourcePortFirst(s, p) ==
    LET port == OptOr(p.src_port, p.dst_port) IN
    [s EXCEPT !.packet_sizes = TrimOldest(@, PacketSizesCap),
              !.port_activity = IF IsSome(port) THEN Bump(@, Unwrap(port)) ELSE @,
              !.top_talkers = IF IsSome(p.src_ip) THEN Bump(@, Unwrap(p.src_ip)) ELSE @,
              !.threat_alerts =
                  IF p.threat_level # "Safe"
                  THEN Append(@, <<p.timestamp, alert_msg(p), p.threat_level>>)
                  ELSE @]

\* Lines 396-417: trim of packet_sizes, port activity, top talkers, push of
\* the threat alert.
TrackActivity(s, p) ==
    LET port == OptOr(p.dst_port, p.src_port) IN
    [s EXCEPT !.packet_sizes = TrimOldest(@, PacketSizesCap),
              !.port_activity = IF IsSome(port) THEN Bump(@, Unwrap(port)) ELSE @,
              !.top_talkers = IF IsSome(p.src_ip) THEN Bump(@, Unwrap(p.src_ip)) ELSE @,
              !.threat_alerts =
                  IF p.threat_level # "Safe"
                  THEN Append(@, <<p.timestamp, alert_msg(p), p.threat_level>>)
                  ELSE @]

\* Variant of UpsertFlow: the flow takes the level of the latest record.
UpsertFlowLatestLevel(conns, p) ==
    LET key == connection_key(p)
        old == IF key \in DOMAIN conns THEN conns[key]
               ELSE [src_ip |-> Unwrap(p.src_ip),
                     dst_ip |-> Unwrap(p.dst_ip),
                     src_port |-> p.src_port,
                     dst_port |-> p.dst_port,
                     protocol |-> p.protocol,
                     packet_count |-> 0,
                     total_bytes |-> 0,
                     first_seen |-> p.timestamp,
                     last_seen |-> p.timestamp,
                     threat_level |-> p.threat_level]
        new == [old EXCEPT !.packet_count = @ + 1,
                           !.total_bytes = @ + p.packet_size,
                           !.last_seen = p.timestamp,
                           !.threat_level = p.threat_level]
    IN IF key \in DOMAIN conns THEN [conns EXCEPT ![key] = new]
       ELSE (key :> new) @@ conns

\* Variant of UpsertFlow: a new flow starts with packet_count 1.
UpsertFlowCountsFromOne(conns, p) ==
    LET key == connection_key(p)
        old == IF key \in DOMAIN conns THEN conns[key]
               ELSE [src_ip |-> Unwrap(p.src_ip),
                     dst_ip |-> Unwrap(p.dst_ip),
                     src_port |-> p.src_port,
                     dst_port |-> p.dst_port,
                     protocol |-> p.protocol,
                     packet_count |-> 1,
                     total_bytes |-> 0,
                     first_seen |-> p.timestamp,
                     last_seen |-> p.timestamp,
                     threat_level |-> p.threat_level]
        new == [old EXCEPT !.packet_count = @ + 1,
                           !.total_bytes = @ + p.packet_size,
                           !.last_seen = p.timestamp,
                           !.threat_level = IF ThreatGt(p.threat_level, @)
                                            THEN p.threat_level ELSE @]
    IN IF key \in DOMAIN conns THEN [conns EXCEPT ![key] = new]
       ELSE (key :> new) @@ conns

\* Lines 432-452: entry(key).or_insert(flow with zero counts), then the update.
UpsertFlow(conns, p) ==
    LET key == connection_key(p)
        old == IF key \in DOMAIN conns THEN conns[key]
               ELSE [src_ip |-> Unwrap(p.src_ip),
                     dst_ip |-> Unwrap(p.dst_ip),
                     src_port |-> p.src_port,
                     dst_port |-> p.dst_port,
                     protocol |-> p.protocol,
                     packet_count |-> 0,
                     total_bytes |-> 0,
                     first_seen |-> p.timestamp,
                     last_seen |-> p.timestamp,
                     threat_level |-> p.threat_level]
        new == [old EXCEPT !.packet_count = @ + 1,
                           !.total_bytes = @ + p.packet_size,
                           !.last_seen = p.timestamp,
                           !.threat_level = IF ThreatGt(p.threat_level, @)
                                            THEN p.threat_level ELSE @]
    IN IF key \in DOMAIN conns THEN [conns EXCEPT ![key] = new]
       ELSE (key :> new) @@ conns

\* Lines 420-453: trim of threat_alerts (inside the non-Safe branch), flows.
TrackConnections(s, p) ==
    [s EXCEPT !.threat_alerts = IF p.threat_level # "Safe"
                                THEN TrimOldest(@, ThreatAlertsCap) ELSE @,
              !.connections = IF IsSome(p.src_ip) /\ IsSome(p.dst_ip)
                              THEN UpsertFlow(@, p) ELSE @]

\* Variant of BandwidthDue: the first second is not excluded.
BandwidthDueFromStart(s, el) == el >= 0 /\ s.total_packets % SampleEvery = 0

\* Line 457: the condition of the bandwidth branch.
BandwidthDue(s, el) == el > 0 /\ s.total_packets % SampleEvery = 0

\* Variant of SampleBandwidth: the peaks take the rates of the latest point.
SampleBandwidthPeakIsLatest(s, p, el) ==
    IF BandwidthDue(s, el) THEN
        LET bytes_per_sec == Rate(s.total_bytes, el)
            packets_per_sec == Rate(s.total_packets, el)
        IN [s EXCEPT !.bandwidth_history =
                         Append(@, [timestamp |-> p.timestamp,
                                    bytes_per_sec |-> bytes_per_sec,
                                    packets_per_sec |-> packets_per_sec]),
                     !.peak_bandwidth = bytes_per_sec,
                     !.peak_packets_per_sec = packets_per_sec]
    ELSE s

\* Lines 456-473: push of the bandwidth point and the peaks.
SampleBandwidth(s, p, el) ==
    IF BandwidthDue(s, el) THEN
        LET bytes_per_sec == Rate(s.total_bytes, el)
            packets_per_sec == Rate(s.total_packets, el)
        IN [s EXCEPT !.bandwidth_history =
                         Append(@, [timestamp |-> p.timestamp,
                                    bytes_per_sec |-> bytes_per_sec,
                                    packets_per_sec |-> packets_per_sec]),
                     !.peak_bandwidth =
                         IF RateGt(bytes_per_sec, @) THEN bytes_per_sec ELSE @,
                     !.peak_packets_per_sec =
                         IF RateGt(packets_per_sec, @) THEN packets_per_sec ELSE @]
    ELSE s

\* Variant of FinishStats: current_connections is set inside the bandwidth
\* branch.
FinishStatsCountsWhenDue(s, due) ==
    [s EXCEPT !.bandwidth_history = IF due THEN TrimOldest(@, BandwidthCap) ELSE @,
              !.current_connections = IF due THEN Cardinality(DOMAIN s.connections) ELSE @]

\* Lines 475-482: trim of bandwidth_history (inside the branch of line 457,
\* taken iff due), current_connections.
FinishStats(s, due) ==
    [s EXCEPT !.bandwidth_history = IF due THEN TrimOldest(@, BandwidthCap) ELSE @,
              !.current_connections = Cardinality(DOMAIN s.connections)]

\* Lines 488-493: the recent-record buffer.
PushRecent(v, p) == Append(v, p)
TrimRecent(v) == TrimOldest(v, RecentCap)

\* ----------------------------------------------------------------- state
VARIABLES
    args,              \* Args: count, protocol and port filter
    stats,             \* Mutex<NetworkStats> contents
    captured_packets,  \* Mutex<Vec<PacketInfo>> contents
    stats_lock,        \* NetworkStats mutex: its holder, "free" or "poisoned"
    packets_lock,      \* recent-record mutex: its holder, "free" or "poisoned"
    cpc,               \* position of the capture thread
    rpc,               \* position of the render loop
    packet_count,      \* capture thread local
    packet_info,       \* capture thread local: the record in hand
    elapsed,           \* capture thread local of line 456
    clock,             \* Instant: whole seconds since start_dashboard_mode
    failure,           \* capture source error seen: "none", "channel", "read"
    base,              \* history: records ingested before the first state
    hist,              \* history: records accepted since the first state
    pushed_points,     \* history: every bandwidth point pushed, in order
    call,              \* a function called on its own: its name and arguments
    ret,               \* what the call returned, None until it has
    wtr,               \* export_to_csv: the csv::Writer and the loop position
    csv_file           \* the file export_to_csv writes, None while there is none

vars == <<args, stats, captured_packets, stats_lock, packets_lock, cpc, rpc,
          packet_count, packet_info, elapsed, clock, failure, base, hist,
          pushed_points, call, ret, wtr, csv_file>>

Calls == <<call, ret, wtr, csv_file>>
\* Nothing is called on its own.
NoCall == [fn |-> "none"]
NoWriter == [pc |-> "none", next |-> 0, buf |-> <<>>]

\* ------------------------------------------------------- earlier records
\* The capture may already have run for a while in the first state of a
\* behaviour.  The records ingested until then alternate between two frames
\* and were all captured within one clock second.
PrefillFrame(i) == IF i % 2 = 0 THEN FrameRdp ELSE FrameWeb
PrefillRecord(i, now) == analyze_packet_advanced(PrefillFrame(i), i, now)

\* One whole iteration of the capture loop on record p, nothing interleaved.
IngestOne(acc, p, el) ==
    LET s3 == TrackConnections(TrackActivity(UpdateTotals(acc.stats, p), p), p)
        s4 == SampleBandwidth(s3, p, el)
    IN [stats |-> FinishStats(s4, BandwidthDue(s4, el)),
        packets |-> TrimRecent(PushRecent(acc.packets, p)),
        pushed |-> IF Len(s4.bandwidth_history) > Len(s3.bandwidth_history)
                   THEN Append(acc.pushed, s4.bandwidth_history[Len(s4.bandwidth_history)])
                   ELSE acc.pushed]

\* The iterations lo..hi in order, by halving.
RECURSIVE IngestRange(_, _, _, _)
IngestRange(acc, lo, hi, now) ==
    IF lo > hi THEN acc
    ELSE IF lo = hi THEN IngestOne(acc, PrefillRecord(lo, now), now)
    ELSE LET mid == (lo + hi) \div 2
             left == IngestRange(acc, lo, mid, now)
         IN IF left.stats.total_packets >= 0 THEN IngestRange(left, mid + 1, hi, now) ELSE left

\* Stats created at clock 0, then n records ingested at clock now.
AfterRecords(n, now) ==
    IngestRange([stats |-> NewStats(0), packets |-> <<>>, pushed |-> <<>>], 1, n, now)

\* First states: nothing captured yet; one record before the first multiple
\* of SampleEvery, within the first second; one record before
\* bandwidth_history overflows.
Prefills ==
    {[n |-> 0, now |-> 0],
     [n |-> SampleEvery - 1, now |-> 0],
     [n |-> BandwidthCap * SampleEvery + SampleEvery - 1, now |-> 1]}

\* No filter, a CSV export asked for.  A capture seen from its start has a
\* packet limit of at most CountLimit, one seen later has none.
ArgsOf(pre) ==
    {[count |-> k, protocol |-> None, port |-> None,
      export_json |-> None, export_csv |-> Some("capture.csv")] :
        k \in IF pre.n = 0 THEN 1..CountLimit ELSE {0}}

Init ==
    \E pre \in Prefills :
        LET acc == AfterRecords(pre.n, pre.now) IN
        /\ args \in ArgsOf(pre)
        /\ stats = acc.stats
        /\ captured_packets = acc.packets
        /\ pushed_points = acc.pushed
        /\ stats_lock = "free"
        /\ packets_lock = "free"
        /\ cpc = IF pre.n = 0 THEN "open" ELSE "loop"
        /\ rpc = "sleep"
        /\ packet_count = pre.n
        /\ packet_info = None
        /\ elapsed = None
        /\ clock = pre.now
        /\ failure = "none"
        /\ base = pre
        /\ hist = <<>>
        /\ call = NoCall
        /\ ret = None
        /\ wtr = NoWriter
        /\ csv_file = None

\* -------------------------------------------------------- capture thread
\* capture_packets_with_stats.  Positions: "open" before datalink::channel,
\* "loop" at the head of the loop, "lock_stats" .. "trim_recent" inside one
\* iteration, "exit" after the function returned, "poisoned_stats" and
\* "poisoned_packets" after the thread panicked in the unwrap() of line 389
\* or 487.
CaptureLocals == <<packet_count, packet_info, elapsed>>
History == <<base, hist, pushed_points>>

\* Lines 363-364: the channel is created.
CaptureOpen ==
    /\ cpc = "open"
    /\ cpc' = "loop"
    /\ UNCHANGED <<Calls, args, stats, captured_packets, stats_lock, packets_lock, rpc,
                   CaptureLocals, clock, failure, History>>

\* Lines 365-372: no channel, the function returns.
CaptureOpenFailed ==
    /\ cpc = "open"
    /\ cpc' = "exit"
    /\ failure' = "channel"
    /\ UNCHANGED <<Calls, args, stats, captured_packets, stats_lock, packets_lock, rpc,
                   CaptureLocals, clock, History>>

\* Variant of LimitReached: the limit itself is not enough.
LimitReachedLate == args.count > 0 /\ packet_count > args.count

\* Line 378: the condition of the break.
LimitReached == args.count > 0 /\ packet_count >= args.count

\* Lines 378-380.
CaptureLimit ==
    /\ cpc = "loop"
    /\ LimitReached
    /\ cpc' = "exit"
    /\ UNCHANGED <<Calls, args, stats, captured_packets, stats_lock, packets_lock, rpc,
                   CaptureLocals, clock, failure, History>>

\* Lines 382, 499-502: rx.next() fails, break.
CaptureReadFailed ==
    /\ cpc = "loop"
    /\ ~LimitReached
    /\ cpc' = "exit"
    /\ failure' = "read"
    /\ UNCHANGED <<Calls, args, stats, captured_packets, stats_lock, packets_lock, rpc,
                   CaptureLocals, clock, History>>

\* Lines 382-384: a frame the filter rejects; next iteration, nothing changed.
CaptureRejected ==
    /\ cpc = "loop"
    /\ ~LimitReached
    /\ \E f \in Frames : ~should_capture_packet(f, args)
    /\ UNCHANGED vars

\* Lines 382-385: a frame the filter accepts, decoded and classified.
CaptureAccepted ==
    /\ cpc = "loop"
    /\ ~LimitReached
    /\ Len(hist) < MaxIngest
    /\ \E f \in Frames, now \in Utc :
        /\ should_capture_packet(f, args)
        /\ LET p == analyze_packet_advanced(f, packet_count + 1, now) IN
            /\ packet_info' = Some(p)
            /\ hist' = Append(hist, p)
    /\ cpc' = "lock_stats"
    /\ UNCHANGED <<Calls, args, stats, captured_packets, stats_lock, packets_lock, rpc,
                   packet_count, elapsed, clock, failure, base, pushed_points>>

\* Line 389: stats.lock().
CaptureLockStats ==
    /\ cpc = "lock_stats"
    /\ stats_lock = "free"
    /\ stats_lock' = "capture"
    /\ cpc' = "update_totals"
    /\ UNCHANGED <<Calls, args, stats, captured_packets, packets_lock, rpc,
                   CaptureLocals, clock, failure, History>>

\* Lines 390-395.
CaptureUpdateTotals ==
    /\ cpc = "update_totals"
    /\ stats' = UpdateTotals(stats, Unwrap(packet_info))
    /\ cpc' = "track_activity"
    /\ UNCHANGED <<Calls, args, captured_packets, stats_lock, packets_lock, rpc,
                   CaptureLocals, clock, failure, History>>

\* Lines 396-417.
CaptureTrackActivity ==
    /\ cpc = "track_activity"
    /\ stats' = TrackActivity(stats, Unwrap(packet_info))
    /\ cpc' = "track_connections"
    /\ UNCHANGED <<Calls, args, captured_packets, stats_lock, packets_lock, rpc,
                   CaptureLocals, clock, failure, History>>

\* Lines 420-453.
CaptureTrackConnections ==
    /\ cpc = "track_connections"
    /\ stats' = TrackConnections(stats, Unwrap(packet_info))
    /\ cpc' = "sample_bandwidth"
    /\ UNCHANGED <<Calls, args, captured_packets, stats_lock, packets_lock, rpc,
                   CaptureLocals, clock, failure, History>>

\* Lines 456-473: elapsed is read from the clock here.
CaptureSampleBandwidth ==
    /\ cpc = "sample_bandwidth"
    /\ LET el == clock - stats.start_time IN
        /\ elapsed' = Some(el)
        /\ stats' = SampleBandwidth(stats, Unwrap(packet_info), el)
    /\ pushed_points' =
           IF Len(stats'.bandwidth_history) > Len(stats.bandwidth_history)
           THEN Append(pushed_points, stats'.bandwidth_history[Len(stats'.bandwidth_history)])
           ELSE pushed_points
    /\ cpc' = "finish_stats"
    /\ UNCHANGED <<Calls, args, captured_packets, stats_lock, packets_lock, rpc,
                   packet_count, packet_info, clock, failure, base, hist>>

\* Lines 475-483: the end of the block drops the guard.
CaptureFinishStats ==
    /\ cpc = "finish_stats"
    /\ stats' = FinishStats(stats, BandwidthDue(stats, Unwrap(elapsed)))
    /\ elapsed' = None
    /\ stats_lock' = "free"
    /\ cpc' = "lock_packets"
    /\ UNCHANGED <<Calls, args, captured_packets, packets_lock, rpc, packet_count,
                   packet_info, clock, failure, History>>

\* Line 389: the mutex is poisoned, lock() returns the PoisonError and
\* unwrap() panics: the thread ends with its record in hand.
CaptureLockStatsPoisoned ==
    /\ cpc = "lock_stats"
    /\ stats_lock = "poisoned"
    /\ cpc' = "poisoned_stats"
    /\ UNCHANGED <<Calls, args, stats, captured_packets, stats_lock, packets_lock, rpc,
                   CaptureLocals, clock, failure, History>>

\* Line 487: captured_packets.lock().
CaptureLockPackets ==
    /\ cpc = "lock_packets"
    /\ packets_lock = "free"
    /\ packets_lock' = "capture"
    /\ cpc' = "push_recent"
    /\ UNCHANGED <<Calls, args, stats, captured_packets, stats_lock, rpc,
                   CaptureLocals, clock, failure, History>>

\* Line 487: the mutex is poisoned and unwrap() panics: the thread ends
\* with the record counted in the stats and not pushed.
CaptureLockPacketsPoisoned ==
    /\ cpc = "lock_packets"
    /\ packets_lock = "poisoned"
    /\ cpc' = "poisoned_packets"
    /\ UNCHANGED <<Calls, args, stats, captured_packets, stats_lock, packets_lock, rpc,
                   CaptureLocals, clock, failure, History>>

\* Line 488.
CapturePushRecent ==
    /\ cpc = "push_recent"
    /\ captured_packets' = PushRecent(captured_packets, Unwrap(packet_info))
    /\ cpc' = "trim_recent"
    /\ UNCHANGED <<Calls, args, stats, stats_lock, packets_lock, rpc,
                   CaptureLocals, clock, failure, History>>

\* Variant of CaptureTrimRecent: the guard outlives the iteration.
CaptureTrimRecentKeepsGuard ==
    /\ cpc = "trim_recent"
    /\ captured_packets' = TrimRecent(captured_packets)
    /\ packet_count' = packet_count + 1
    /\ packet_info' = None
    /\ cpc' = "loop"
    /\ UNCHANGED <<Calls, args, stats, stats_lock, packets_lock, rpc, elapsed, clock,
                   failure, History>>

\* Lines 490-496: trim, the guard is dropped, packet_count += 1.
CaptureTrimRecent ==
    /\ cpc = "trim_recent"
    /\ captured_packets' = TrimRecent(captured_packets)
    /\ packets_lock' = "free"
    /\ packet_count' = packet_count + 1
    /\ packet_info' = None
    /\ cpc' = "loop"
    /\ UNCHANGED <<Calls, args, stats, stats_lock, rpc, elapsed, clock, failure, History>>

\* The process runs until its main thread, the render loop, has left main
\* by its panic: that ends the process and the capture thread with it.
Running == rpc # "exited"

capture_packets_with_stats ==
    /\ Running
    /\ \/ CaptureOpen \/ CaptureOpenFailed
       \/ CaptureLimit \/ CaptureReadFailed \/ CaptureRejected \/ CaptureAccepted
       \/ CaptureLockStats \/ CaptureLockStatsPoisoned
       \/ CaptureUpdateTotals \/ CaptureTrackActivity
       \/ CaptureTrackConnections \/ CaptureSampleBandwidth \/ CaptureFinishStats
       \/ CaptureLockPackets \/ CaptureLockPacketsPoisoned
       \/ CapturePushRecent \/ CaptureTrimRecent

\* ----------------------------------------------------------- render loop
\* start_dashboard_mode lines 343-352 and display_dashboard.  Positions:
\* "sleep", "lock_stats" (line 508), "lock_packets" (line 509), "print"
\* (lines 512-571), "panicked" after the panic of line 837 has unwound
\* display_dashboard, "exited" when the process has ended.
Shared == <<args, stats, captured_packets>>

\* Lines 344-347: the sleep ends, the screen is cleared, display_dashboard
\* is called.
RenderWake ==
    /\ rpc = "sleep"
    /\ rpc' = "lock_stats"
    /\ UNCHANGED <<Calls, Shared, stats_lock, packets_lock, cpc, CaptureLocals, clock,
                   failure, History>>

\* Variant of RenderLockStats: the stats are read without waiting for the mutex.
RenderLockStatsNoWait ==
    /\ rpc = "lock_stats"
    /\ stats_lock' = "render"
    /\ rpc' = "lock_packets"
    /\ UNCHANGED <<Calls, Shared, packets_lock, cpc, CaptureLocals, clock, failure, History>>

\* Line 508.
RenderLockStats ==
    /\ rpc = "lock_stats"
    /\ stats_lock = "free"
    /\ stats_lock' = "render"
    /\ rpc' = "lock_packets"
    /\ UNCHANGED <<Calls, Shared, packets_lock, cpc, CaptureLocals, clock, failure, History>>

\* Line 509.
RenderLockPackets ==
    /\ rpc = "lock_packets"
    /\ packets_lock = "free"
    /\ packets_lock' = "render"
    /\ rpc' = "print"
    /\ UNCHANGED <<Calls, Shared, stats_lock, cpc, CaptureLocals, clock, failure, History>>

\* Lines 512-571: everything is formatted and printed from the two guards,
\* which are dropped when display_dashboard returns.  It returns when the
\* buffer is empty: display_recent_activity then prints its waiting line
\* (lines 829-833).
RenderPrint ==
    /\ rpc = "print"
    /\ captured_packets = <<>>
    /\ packets_lock' = "free"
    /\ stats_lock' = "free"
    /\ rpc' = "sleep"
    /\ UNCHANGED <<Calls, Shared, cpc, CaptureLocals, clock, failure, History>>

\* Variant of RenderPanic: the records shown before the panic are taken
\* out of the buffer.
RenderPanicDrains ==
    /\ rpc = "print"
    /\ captured_packets # <<>>
    /\ captured_packets' = <<>>
    /\ stats_lock' = "poisoned"
    /\ packets_lock' = "poisoned"
    /\ rpc' = "panicked"
    /\ UNCHANGED <<Calls, args, stats, cpc, CaptureLocals, clock, failure, History>>

\* Lines 512-565 and 836-837: with a record in the buffer the sections
\* before the activity stream are printed from the two guards, then
\* display_recent_activity formats the newest record's timestamp with
\* "%H:%M:%S%.1f", which chrono does not know: to_string() panics.  The
\* panic unwinds display_dashboard: both guards are dropped by a panicking
\* thread, which releases and poisons the two mutexes.
RenderPanic ==
    /\ rpc = "print"
    /\ captured_packets # <<>>
    /\ stats_lock' = "poisoned"
    /\ packets_lock' = "poisoned"
    /\ rpc' = "panicked"
    /\ UNCHANGED <<Calls, Shared, cpc, CaptureLocals, clock, failure, History>>

\* The panic leaves main: the process ends with status 101, whatever the
\* capture thread is doing.
PanicExit ==
    /\ rpc = "panicked"
    /\ rpc' = "exited"
    /\ ret' = Some("panic")
    /\ call' = IF call.fn = "main" THEN [call EXCEPT !.pc = "exit"] ELSE call
    /\ UNCHANGED <<wtr, csv_file, Shared, stats_lock, packets_lock, cpc, CaptureLocals,
                   clock, failure, History>>

display_dashboard ==
    \/ RenderWake \/ RenderLockStats \/ RenderLockPackets \/ RenderPrint
    \/ RenderPanic \/ PanicExit

\* ------------------------------------------------------------------ time
\* The clock is the monotone Instant that start_time.elapsed() reads (line
\* 456); the timestamps come from the wall clock (Utc, line 870).  A
\* second that passes shows only at the next read of elapsed(), so it is
\* let pass before one: at the head of an iteration or just before the read.
Tick ==
    /\ Running
    /\ clock < base.now + MaxClock
    /\ cpc \in {"loop", "sample_bandwidth"}
    /\ clock' = clock + 1
    /\ UNCHANGED <<Calls, Shared, stats_lock, packets_lock, cpc, rpc, CaptureLocals,
                   failure, History>>

Next == capture_packets_with_stats \/ display_dashboard \/ Tick

Spec == Init /\ [][Next]_vars

\* Scheduling.  A thread that can take a step takes one.  The render loop
\* sleeps a second with both mutexes released between two calls of
\* display_dashboard (line 344), so a capture thread blocked in lock() gets
\* the mutex.  Nothing is assumed of the capture source or of the clock.
CaptureStep ==
    /\ Running
    /\ \/ CaptureOpen \/ CaptureOpenFailed \/ CaptureLimit
       \/ CaptureLockStats \/ CaptureLockStatsPoisoned
       \/ CaptureUpdateTotals \/ CaptureTrackActivity \/ CaptureTrackConnections
       \/ CaptureSampleBandwidth \/ CaptureFinishStats
       \/ CaptureLockPackets \/ CaptureLockPacketsPoisoned
       \/ CapturePushRecent \/ CaptureTrimRecent

Fairness ==
    /\ SF_vars(CaptureStep)
    /\ WF_vars(display_dashboard)

FairSpec == Spec /\ Fairness

\* The two threads alone, within one clock second: no guard of theirs reads
\* the clock, so whether a thread can go on does not depend on it.
Threads == capture_packets_with_stats \/ display_dashboard
ThreadsSpec == Init /\ [][Threads]_vars /\ Fairness

\* ======================================================== functions alone
\* A function of the program called on its own, on arguments drawn from a
\* set, while the dashboard does not run.
Dashboard == <<args, stats, captured_packets, stats_lock, packets_lock, cpc, rpc,
               packet_count, packet_info, elapsed, clock, failure, base, hist,
               pushed_points>>

DashboardIdle ==
    /\ args = [count |-> 0, protocol |-> None, port |-> None,
               export_json |-> None, export_csv |-> None]
    /\ stats = NewStats(0)
    /\ captured_packets = <<>>
    /\ pushed_points = <<>>
    /\ stats_lock = "free"
    /\ packets_lock = "free"
    /\ cpc = "exit"
    /\ rpc = "sleep"
    /\ packet_count = 0
    /\ packet_info = None
    /\ elapsed = None
    /\ clock = 0
    /\ failure = "none"
    /\ base = [n |-> 0, now |-> 0]
    /\ hist = <<>>

\* ---------------------------------------------------- detect_threat_level
\* The PacketInfo values detect_threat_level is called on: each field it
\* reads takes the values on both sides of every comparison made on it.
ClassifierAddresses ==
    {<<8, 8, 8, 8>>, <<100, 1, 1, 1>>, <<10, 0, 0, 7>>, <<10, 1, 2, 3>>,
     <<127, 0, 0, 1>>, <<169, 254, 1, 1>>, <<192, 168, 1, 1>>, <<192, 169, 0, 1>>,
     <<172, 15, 0, 1>>, <<172, 16, 0, 1>>, <<172, 20, 0, 1>>, <<172, 31, 255, 255>>,
     <<172, 32, 0, 1>>}
ClassifierPorts ==
    {1433, 3389, 5900, 23, 135, 139, 445, 21, 25, 110, 143, 993, 995,
     53, 80, 49152, 49153}
ClassifierSizes == {63, 64, 100, 1500, 1501}
ClassifierProtocols == {"TCP", "UDP", "ICMP", "Unknown"}

ClassifierInputs ==
    {[timestamp |-> 0, packet_number |-> 1,
      src_ip |-> IF IsSome(dst) THEN Some(HostA) ELSE None,
      dst_ip |-> dst, protocol |-> proto,
      src_port |-> sport, dst_port |-> dport,
      packet_size |-> size, threat_level |-> "Safe"] :
        dst \in {None} \cup {Some(ip) : ip \in ClassifierAddresses},
        proto \in ClassifierProtocols,
        sport \in {None, Some(3389)},
        dport \in {None} \cup {Some(port) : port \in ClassifierPorts},
        size \in ClassifierSizes}

ClassifierInit ==
    /\ DashboardIdle
    /\ call \in {[fn |-> "detect_threat_level", packet_info |-> p] : p \in ClassifierInputs}
    /\ ret = None
    /\ wtr = NoWriter
    /\ csv_file = None

\* Line 959 of analyze_packet_advanced: the call and its return value.
Classify ==
    /\ call.fn = "detect_threat_level"
    /\ ret = None
    /\ ret' = Some(detect_threat_level(call.packet_info))
    /\ UNCHANGED <<call, wtr, csv_file, Dashboard>>

ClassifierSpec == ClassifierInit /\ [][Classify]_vars

\* -------------------------------------------------- should_capture_packet
\* The frames the filter is called on: one per way through the parsers,
\* with the ports the filters name and one they do not.  Fields a parser
\* did not get to are fixed.
FilterPorts == {53, 80, 8080, 5000}
FilterFrames ==
    {FrameShort, FrameArp, FrameV6,
     Frame(TRUE, "Ipv4", FALSE, HostA, HostB, "Tcp", FALSE, 0, 0, 20),
     Frame(TRUE, "Ipv4", TRUE, HostA, HostB, "Igmp", FALSE, 0, 0, 60)}
    \cup {Frame(TRUE, "Ipv4", TRUE, HostA, HostB, next, FALSE, 0, 0, 36) :
            next \in {"Tcp", "Udp", "Icmp"}}
    \cup {Frame(TRUE, "Ipv4", TRUE, HostA, HostB, "Icmp", TRUE, 0, 0, 98)}
    \cup {Frame(TRUE, "Ipv4", TRUE, HostA, HostB, next, TRUE, sport, dport, 100) :
            next \in {"Tcp", "Udp"}, sport \in FilterPorts, dport \in FilterPorts}

\* --protocol and --port as given on the command line.
FilterArgs ==
    {[count |-> 0, protocol |-> proto, port |-> port,
      export_json |-> None, export_csv |-> None] :
        proto \in {None} \cup {Some(name) : name \in {<<"t", "c", "p">>, <<"u", "d", "p">>, <<"i", "c", "m", "p">>,
                      <<"h", "t", "t", "p">>, <<"d", "n", "s">>,
                      <<"T", "C", "P">>, <<"H", "T", "T", "P">>, <<"D", "N", "S">>,
                      <<"T", "c", "p">>, <<"H", "t", "t", "p">>, <<"d", "N", "s">>,
                      <<"f", "t", "p">>}},
        port \in {None, Some(80), Some(53)}}

FilterInit ==
    /\ DashboardIdle
    /\ call \in {[fn |-> "should_capture_packet", packet |-> f, args |-> a] :
                    f \in FilterFrames, a \in FilterArgs}
    /\ ret = None
    /\ wtr = NoWriter
    /\ csv_file = None

\* Line 384 (and 1171): the call and its return value.
Filter ==
    /\ call.fn = "should_capture_packet"
    /\ ret = None
    /\ ret' = Some(should_capture_packet(call.packet, call.args))
    /\ UNCHANGED <<call, wtr, csv_file, Dashboard>>

FilterSpec == FilterInit /\ [][Filter]_vars

\* ----------------------------------------------------------- export_to_csv
\* Text is a sequence of characters, each a string of length one.
DigitChar == <<"0", "1", "2", "3", "4", "5", "6", "7", "8", "9">>

\* usize / u16 to_string(): the decimal digits.
RECURSIVE to_string(_)
to_string(n) ==
    IF n < 10 THEN <<DigitChar[n + 1]>>
    ELSE to_string(n \div 10) \o <<DigitChar[(n % 10) + 1]>>

\* Ipv4Addr to_string() (lines 899-900): dotted decimal.
IpToString(ip) ==
    to_string(ip[1]) \o <<".">> \o to_string(ip[2]) \o <<".">>
        \o to_string(ip[3]) \o <<".">> \o to_string(ip[4])

\* DateTime<Utc> to_rfc3339() of the clock second t of the first minute of
\* the clock's day.
to_rfc3339(t) ==
    <<"1", "9", "7", "0", "-", "0", "1", "-", "0", "1", "T", "0", "0", ":", "0", "0", ":">>
        \o <<DigitChar[(t \div 10) + 1], DigitChar[(t % 10) + 1]>>
        \o <<"+", "0", "0", ":", "0", "0">>

\* The protocol names of analyze_packet_advanced, spelled out.
ProtocolText(s) ==
    CASE s = "TCP" -> <<"T", "C", "P">>
      [] s = "UDP" -> <<"U", "D", "P">>
      [] s = "ICMP" -> <<"I", "C", "M", "P">>
      [] s = "Unknown" -> <<"U", "n", "k", "n", "o", "w", "n">>
      [] s = "IPv6" -> <<"I", "P", "v", "6">>
      [] s = "EtherType(2054)" ->
            <<"E", "t", "h", "e", "r", "T", "y", "p", "e", "(", "2", "0", "5", "4", ")">>
      [] s = "IPv4-IpNextHeaderProtocol(2)" ->
            <<"I", "P", "v", "4", "-", "I", "p", "N", "e", "x", "t", "H", "e", "a", "d", "e", "r",
              "P", "r", "o", "t", "o", "c", "o", "l", "(", "2", ")">>

\* Lines 1365-1366.
CsvHeader ==
    <<<<"t", "i", "m", "e", "s", "t", "a", "m", "p">>,
     <<"p", "a", "c", "k", "e", "t", "_", "n", "u", "m", "b", "e", "r">>,
     <<"s", "r", "c", "_", "i", "p">>,
     <<"d", "s", "t", "_", "i", "p">>,
     <<"p", "r", "o", "t", "o", "c", "o", "l">>,
     <<"s", "r", "c", "_", "p", "o", "r", "t">>,
     <<"d", "s", "t", "_", "p", "o", "r", "t">>,
     <<"p", "a", "c", "k", "e", "t", "_", "s", "i", "z", "e">>,
     <<"f", "l", "a", "g", "s">>,
     <<"a", "p", "p", "l", "i", "c", "a", "t", "i", "o", "n", "_", "p", "r", "o", "t", "o", "c", "o", "l">>,
     <<"d", "e", "s", "c", "r", "i", "p", "t", "i", "o", "n">>>>

\* Variant of CsvRecord: an absent port is written as 0.
CsvRecordAbsentPortAsZero(packet) ==
    <<to_rfc3339(packet.timestamp),
      to_string(packet.packet_number),
      IF IsSome(packet.src_ip) THEN IpToString(Unwrap(packet.src_ip)) ELSE <<>>,
      IF IsSome(packet.dst_ip) THEN IpToString(Unwrap(packet.dst_ip)) ELSE <<>>,
      ProtocolText(packet.protocol),
      to_string(UnwrapOr(packet.src_port, 0)),
      to_string(UnwrapOr(packet.dst_port, 0)),
      to_string(packet.packet_size),
      UnwrapOr(packet.flags, <<>>),
      UnwrapOr(packet.application_protocol, <<>>),
      packet.description>>

\* Lines 1371-1383: the eleven fields of one record.
CsvRecord(packet) ==
    <<to_rfc3339(packet.timestamp),
      to_string(packet.packet_number),
      IF IsSome(packet.src_ip) THEN IpToString(Unwrap(packet.src_ip)) ELSE <<>>,
      IF IsSome(packet.dst_ip) THEN IpToString(Unwrap(packet.dst_ip)) ELSE <<>>,
      ProtocolText(packet.protocol),
      IF IsSome(packet.src_port) THEN to_string(Unwrap(packet.src_port)) ELSE <<>>,
      IF IsSome(packet.dst_port) THEN to_string(Unwrap(packet.dst_port)) ELSE <<>>,
      to_string(packet.packet_size),
      UnwrapOr(packet.flags, <<>>),
      UnwrapOr(packet.application_protocol, <<>>),
      packet.description>>

\* csv::Writer with its default settings: a field that holds the delimiter,
\* a quote or a line break is written between quotes with every quote in
\* it doubled; fields are joined by commas and the record ends with \n.
NeedsQuotes(field) == \E i \in 1..Len(field) : field[i] \in {",", "\"", "\n", "\r"}

RECURSIVE DoubleQuotes(_)
DoubleQuotes(field) ==
    IF field = <<>> THEN <<>>
    ELSE (IF Head(field) = "\"" THEN <<"\"", "\"">> ELSE <<Head(field)>>)
            \o DoubleQuotes(Tail(field))

WriteField(field) ==
    IF NeedsQuotes(field) THEN <<"\"">> \o DoubleQuotes(field) \o <<"\"">> ELSE field

RECURSIVE JoinFields(_)
JoinFields(record) ==
    IF Len(record) = 1 THEN WriteField(record[1])
    ELSE WriteField(Head(record)) \o <<",">> \o JoinFields(Tail(record))

\* wtr.write_record (lines 1365 and 1385).
write_record(buf, record) == buf \o JoinFields(record) \o <<"\n">>

\* The records export_to_csv is called on: a TCP record with every field
\* present; the record of a frame that did not parse; a record without
\* ports; a TCP record with no flag set; a record whose description holds
\* a comma, quotes and a line break.
ExportRecords ==
    {[timestamp |-> 0, packet_number |-> 1,
      src_ip |-> Some(HostA), dst_ip |-> Some(HostB), protocol |-> "TCP",
      src_port |-> Some(5000), dst_port |-> Some(80), packet_size |-> 100,
      flags |-> Some(<<"S", "Y", "N", " ", "A", "C", "K">>),
      application_protocol |-> Some(<<"H", "T", "T", "P">>),
      description |-> <<"W", "e", "b", " ", "b", "r", "o", "w", "s", "i", "n", "g", " ", "(", "H", "T", "T", "P", " ", "r", "e", "q", "u", "e", "s", "t", "/", "r", "e", "s", "p", "o", "n", "s", "e", ")">>,
      threat_level |-> "Safe"],
     [timestamp |-> 1, packet_number |-> 12,
      src_ip |-> None, dst_ip |-> None, protocol |-> "Unknown",
      src_port |-> None, dst_port |-> None, packet_size |-> 10,
      flags |-> None,
      application_protocol |-> None,
      description |-> <<"U", "n", "k", "n", "o", "w", "n", " ", "p", "a", "c", "k", "e", "t">>,
      threat_level |-> "Safe"],
     [timestamp |-> 2, packet_number |-> 1000,
      src_ip |-> Some(HostA), dst_ip |-> Some(HostC), protocol |-> "ICMP",
      src_port |-> None, dst_port |-> None, packet_size |-> 98,
      flags |-> None,
      application_protocol |-> None,
      description |-> <<"I", "C", "M", "P", " ", "p", "i", "n", "g", "/", "e", "c", "h", "o", " ", "m", "e", "s", "s", "a", "g", "e">>,
      threat_level |-> "Safe"],
     [timestamp |-> 59, packet_number |-> 7,
      src_ip |-> Some(HostB), dst_ip |-> Some(HostA), protocol |-> "TCP",
      src_port |-> Some(80), dst_port |-> Some(65535), packet_size |-> 1500,
      flags |-> Some(<<>>),
      application_protocol |-> None,
      description |-> <<"T", "C", "P", " ", "c", "o", "n", "n", "e", "c", "t", "i", "o", "n", " ", "f", "r", "o", "m", " ", "p", "o", "r", "t", " ", "8", "0", " ", "t", "o", " ", "p", "o", "r", "t", " ", "6", "5", "5", "3", "5">>,
      threat_level |-> "Safe"],
     [timestamp |-> 10, packet_number |-> 3,
      src_ip |-> Some(HostA), dst_ip |-> Some(HostB), protocol |-> "UDP",
      src_port |-> Some(53), dst_port |-> Some(53), packet_size |-> 64,
      flags |-> None,
      application_protocol |-> Some(<<"D", "N", "S">>),
      description |-> <<"a", ",", "\"", "b", "\"", "\n", "c">>,
      threat_level |-> "Safe"]}

RECURSIVE SeqsUpTo(_, _)
SeqsUpTo(S, n) ==
    IF n = 0 THEN {<<>>}
    ELSE LET shorter == SeqsUpTo(S, n - 1) IN
         shorter \cup {Append(q, x) : q \in {r \in shorter : Len(r) = n - 1}, x \in S}

ExportInit ==
    /\ DashboardIdle
    /\ call \in {[fn |-> "export_to_csv", packets |-> recs] :
                    recs \in SeqsUpTo(ExportRecords, MaxRecords)}
    /\ ret = None
    /\ wtr = [pc |-> "create", next |-> 0, buf |-> <<>>]
    /\ csv_file = None

\* What the file holds when export_to_csv returns an error after the file
\* was created: csv::Writer keeps the rows in its own buffer and hands them
\* to the file when the buffer fills, on flush and when it is dropped, each
\* of which can write all, part or none of the text.
Written(buf) == {SubSeq(buf, 1, k) : k \in 0..Len(buf)}

\* Lines 1361-1362: the file is created.
ExportCreate ==
    /\ call.fn = "export_to_csv"
    /\ wtr.pc = "create"
    /\ wtr' = [wtr EXCEPT !.pc = "header"]
    /\ csv_file' = Some(<<>>)
    /\ UNCHANGED <<call, ret, Dashboard>>

\* Lines 1361-1362: the file cannot be created.
ExportCreateFailed ==
    /\ call.fn = "export_to_csv"
    /\ wtr.pc = "create"
    /\ wtr' = [wtr EXCEPT !.pc = "done"]
    /\ ret' = Some("ExportError")
    /\ UNCHANGED <<call, csv_file, Dashboard>>

\* Lines 1365-1367: the header row.
ExportWriteHeader ==
    /\ call.fn = "export_to_csv"
    /\ wtr.pc = "header"
    /\ wtr' = [pc |-> "rows", next |-> 1, buf |-> write_record(<<>>, CsvHeader)]
    /\ UNCHANGED <<call, ret, csv_file, Dashboard>>

\* Line 1367: writing the header fails.
ExportWriteHeaderFailed ==
    /\ call.fn = "export_to_csv"
    /\ wtr.pc = "header"
    /\ wtr' = [wtr EXCEPT !.pc = "done"]
    /\ csv_file' = Some(<<>>)
    /\ ret' = Some("ExportError")
    /\ UNCHANGED <<call, Dashboard>>

\* Lines 1370-1387: one pass of the loop.
ExportWriteRecord ==
    /\ call.fn = "export_to_csv"
    /\ wtr.pc = "rows"
    /\ wtr.next <= Len(call.packets)
    /\ wtr' = [wtr EXCEPT !.next = @ + 1,
                          !.buf = write_record(@, CsvRecord(call.packets[wtr.next]))]
    /\ UNCHANGED <<call, ret, csv_file, Dashboard>>

\* Line 1386: writing a record fails.
ExportWriteRecordFailed ==
    /\ call.fn = "export_to_csv"
    /\ wtr.pc = "rows"
    /\ wtr.next <= Len(call.packets)
    /\ wtr' = [wtr EXCEPT !.pc = "done"]
    /\ csv_file' \in {Some(text) : text \in Written(wtr.buf)}
    /\ ret' = Some("ExportError")
    /\ UNCHANGED <<call, Dashboard>>

\* Lines 1389-1393: flush and Ok(()).
ExportFlush ==
    /\ call.fn = "export_to_csv"
    /\ wtr.pc = "rows"
    /\ wtr.next > Len(call.packets)
    /\ wtr' = [wtr EXCEPT !.pc = "done"]
    /\ csv_file' = Some(wtr.buf)
    /\ ret' = Some("Ok")
    /\ UNCHANGED <<call, Dashboard>>

\* Lines 1389-1390: the flush fails.
ExportFlushFailed ==
    /\ call.fn = "export_to_csv"
    /\ wtr.pc = "rows"
    /\ wtr.next > Len(call.packets)
    /\ wtr' = [wtr EXCEPT !.pc = "done"]
    /\ csv_file' \in {Some(text) : text \in Written(wtr.buf)}
    /\ ret' = Some("ExportError")
    /\ UNCHANGED <<call, Dashboard>>

export_to_csv ==
    \/ ExportCreate
    \/ ExportCreateFailed
    \/ ExportWriteHeader
    \/ ExportWriteHeaderFailed
    \/ ExportWriteRecord
    \/ ExportWriteRecordFailed
    \/ ExportFlush
    \/ ExportFlushFailed

ExportSpec == ExportInit /\ [][export_to_csv]_vars

\* -------------------------------------------------------------------- f64
\* The f64 arithmetic of line 604.  A finite f64 that is not negative is
\* zero, or a mantissa m of 53 bits, 2^52 <= m < 2^53, with an exponent:
\* its value is m * 2^exp.  The mantissa is kept in two words,
\* m = hi * Word + lo, so that no step needs more than 32 bits; it is
\* normal when Word <= hi < 2 * Word.  Every operation rounds to nearest,
\* ties to even, as the hardware does.
Word == 2^26
W(hi, lo) == [hi |-> hi, lo |-> lo]
WGe(a, b) == a.hi > b.hi \/ (a.hi = b.hi /\ a.lo >= b.lo)
WSub(a, b) ==
    IF a.lo >= b.lo THEN W(a.hi - b.hi, a.lo - b.lo)
    ELSE W(a.hi - b.hi - 1, a.lo + Word - b.lo)
WDouble(a) == W(2 * a.hi + (2 * a.lo) \div Word, (2 * a.lo) % Word)
WInc(a) == IF a.lo + 1 = Word THEN W(a.hi + 1, 0) ELSE W(a.hi, a.lo + 1)
WOdd(a) == a.lo % 2 = 1
WShr(a, s) == W(a.hi \div 2^s, (a.lo \div 2^s) + (a.hi % 2^s) * (Word \div 2^s))

F64(m, exp) ==
    IF m.hi = 2 * Word THEN [hi |-> Word, lo |-> 0, exp |-> exp + 1]
    ELSE [hi |-> m.hi, lo |-> m.lo, exp |-> exp]
F64Zero == [hi |-> 0, lo |-> 0, exp |-> 0]
IsZero(x) == x.hi = 0 /\ x.lo = 0

\* `n as f64` of an integer below 2^31: exact.
RECURSIVE Normalized(_)
Normalized(x) ==
    IF x.hi >= Word THEN x
    ELSE Normalized([hi |-> WDouble(x).hi, lo |-> WDouble(x).lo, exp |-> x.exp - 1])
F64FromInt(n) ==
    IF n = 0 THEN F64Zero ELSE Normalized([hi |-> n \div Word, lo |-> n % Word, exp |-> 0])

\* One more bit of the quotient by d: s holds the quotient so far in q,
\* in r what is left to divide, r < 2 * d, and in n the bits still to come.
QuotientBit(s, d) ==
    IF WGe(s.r, d)
    THEN [q |-> WInc(WDouble(s.q)), r |-> WDouble(WSub(s.r, d)), n |-> s.n - 1]
    ELSE [q |-> WDouble(s.q), r |-> WDouble(s.r), n |-> s.n - 1]
RECURSIVE QuotientBits(_, _)
QuotientBits(s, d) == IF s.n = 0 THEN s ELSE QuotientBits(QuotientBit(s, d), d)

\* a / b for b not zero: 53 bits of the quotient of the mantissas, rounded
\* by what is left.
F64Div(a, b) ==
    IF IsZero(a) THEN F64Zero
    ELSE LET ma == W(a.hi, a.lo)
             mb == W(b.hi, b.lo)
             ge == WGe(ma, mb)
             d == QuotientBits([q |-> W(0, 0), r |-> IF ge THEN ma ELSE WDouble(ma), n |-> 53],
                               mb)
             up == IF d.r = mb THEN WOdd(d.q) ELSE WGe(d.r, mb)
         IN F64(IF up THEN WInc(d.q) ELSE d.q, a.exp - b.exp - (IF ge THEN 52 ELSE 53))

\* a * 40.0: 40 is 5 * 2^3, and 5 * m has 55 or 56 bits, of which the low 2
\* or 3 are rounded away.
F64Mul40(a) ==
    IF IsZero(a) THEN F64Zero
    ELSE LET p == W(5 * a.hi + (5 * a.lo) \div Word, (5 * a.lo) % Word)
             s == IF p.hi >= 8 * Word THEN 3 ELSE 2
             cut == p.lo % 2^s
             q == WShr(p, s)
             up == IF 2 * cut = 2^s THEN WOdd(q) ELSE 2 * cut > 2^s
         IN F64(IF up THEN WInc(q) ELSE q, a.exp + 3 + s)

\* `a as usize` of a value below 2^26: the integer part.
F64ToUsize(a) ==
    IF IsZero(a) \/ a.exp <= -53 THEN 0
    ELSE a.hi \div 2^(-26 - a.exp)

F64Gt(a, b) ==
    IF IsZero(a) THEN FALSE
    ELSE IF IsZero(b) THEN TRUE
    ELSE \/ a.exp > b.exp
         \/ a.exp = b.exp /\ WGe(a, b) /\ W(a.hi, a.lo) # W(b.hi, b.lo)
F64Max(a, b) == IF F64Gt(b, a) THEN b ELSE a

\* Lines 458-459: `total as f64 / elapsed as f64`, the f64 a rate of the
\* model stands for.  Two rates of the model are in the order of their
\* f64s: their numerators and denominators are below 2^26, so two of them
\* that differ, differ by more than the rounding.
ToF64(rate) == F64Div(F64FromInt(rate.num), F64FromInt(rate.den))

\* ------------------------------------------------ display_bandwidth_graph
\* Lines 595-597: fold(0.0, f64::max) over the whole history.
MaxBytes(h) ==
    LET rates == {F64Zero} \cup {ToF64(h[i].bytes_per_sec) : i \in 1..Len(h)} IN
    CHOOSE r \in rates : \A other \in rates : ~F64Gt(other, r)
\* Line 598: .max(1.0).
max_bytes(h) == F64Max(MaxBytes(h), F64FromInt(1))

\* Line 604: ((bytes_per_sec / max_bytes) * 40.0) as usize.
bar_length(v, m) == F64ToUsize(F64Mul40(F64Div(v, m)))

\* The lines printed by the loop of lines 603-611, as the time and the bar
\* length of each; none for an empty history (lines 589-593).
display_bandwidth_graph(h) ==
    IF h = <<>> THEN <<>>
    ELSE LET m == max_bytes(h)
             shown == SubSeq(h, Len(h) - Min(Len(h), 20) + 1, Len(h))
         IN [i \in 1..Len(shown) |->
                [time |-> shown[i].timestamp,
                 bar_length |-> bar_length(ToF64(shown[i].bytes_per_sec), m)]]

\* The histories the graph is drawn from: up to BandwidthCap points, one a
\* second, with rates that are constant, rise, fall, stay below 1 byte/s,
\* or are quotients that no f64 holds exactly.
GraphLengths == {1, 2, 19, 20, 21, 22, 40, BandwidthCap}
GraphShapes == {"flat", "step_up", "first_peak", "early_peak", "last_peak",
                "alternating", "tiny", "zero", "thirds", "sevenths", "ninths", "slow"}
GraphRate(shape, i, n) ==
    CASE shape = "flat" -> Rate(512, 1)
      [] shape = "step_up" -> IF 2 * i <= n THEN Rate(256, 1) ELSE Rate(1024, 1)
      [] shape = "first_peak" -> IF i = 1 THEN Rate(1024, 1) ELSE Rate(512, 1)
      [] shape = "early_peak" -> IF i <= n - 20 THEN Rate(1024, 1) ELSE Rate(256, 1)
      [] shape = "last_peak" -> IF i = n THEN Rate(1024, 1) ELSE Rate(256, 1)
      [] shape = "alternating" -> IF i % 2 = 0 THEN Rate(1024, 1) ELSE Rate(256, 1)
      [] shape = "tiny" -> Rate(1, 2)
      [] shape = "zero" -> ZeroRate
      [] shape = "thirds" -> IF i % 2 = 1 THEN Rate(10000, 3) ELSE Rate(16000, 6)
      [] shape = "sevenths" -> IF i % 2 = 1 THEN Rate(10000, 4) ELSE Rate(20000, 7)
      [] shape = "ninths" -> IF i % 2 = 1 THEN Rate(6000, 5) ELSE Rate(16000, 9)
      [] shape = "slow" -> IF i % 2 = 1 THEN Rate(1, 3) ELSE Rate(5, 3)
GraphHistories ==
    {<<>>} \cup
    {[i \in 1..n |-> [timestamp |-> i,
                       bytes_per_sec |-> GraphRate(shape, i, n),
                       packets_per_sec |-> Rate(100 * i, i)]] :
        n \in GraphLengths, shape \in GraphShapes}

GraphInit ==
    /\ DashboardIdle
    /\ call \in {[fn |-> "display_bandwidth_graph", bandwidth_history |-> h] :
                    h \in GraphHistories}
    /\ ret = None
    /\ wtr = NoWriter
    /\ csv_file = None

\* Line 536 of display_dashboard: the call and what it prints.
Graph ==
    /\ call.fn = "display_bandwidth_graph"
    /\ ret = None
    /\ ret' = Some(display_bandwidth_graph(call.bandwidth_history))
    /\ UNCHANGED <<call, wtr, csv_file, Dashboard>>

GraphSpec == GraphInit /\ [][Graph]_vars

\* -------------------------------------------- display_packet_size_analysis
\* iter().filter(..).count() of lines 766-769.
CountOf(sizes, Keep(_)) == Cardinality({i \in 1..Len(sizes) : Keep(sizes[i])})
SmallestOf(sizes) ==
    CHOOSE x \in {sizes[i] : i \in 1..Len(sizes)} : \A i \in 1..Len(sizes) : x <= sizes[i]
LargestOf(sizes) ==
    CHOOSE x \in {sizes[i] : i \in 1..Len(sizes)} : \A i \in 1..Len(sizes) : x >= sizes[i]
RECURSIVE SumOf(_, _)
SumOf(sizes, i) == IF i = 0 THEN 0 ELSE sizes[i] + SumOf(sizes, i - 1)

\* Lines 778-780 and 782-784: the bar and the percentage of a row.
SizeRow(label, count, total) ==
    [label |-> label,
     bar |-> Min((count * 30) \div (IF total > 1 THEN total ELSE 1), 30),
     percent |-> (count * 100) \div (IF total > 1 THEN total ELSE 1)]

\* The four counts of lines 766-769 and the lines printed: the placeholder
\* for no sizes (755-759), else the summary (771-775) and the histogram
\* (782-784).
display_packet_size_analysis(sizes) ==
    IF sizes = <<>>
    THEN [counted |-> <<>>, summary |-> <<>>, rows |-> <<>>]
    ELSE LET small == CountOf(sizes, LAMBDA x : x < 100)
             medium == CountOf(sizes, LAMBDA x : x >= 100 /\ x < 500)
             large == CountOf(sizes, LAMBDA x : x >= 500 /\ x < 1500)
             jumbo == CountOf(sizes, LAMBDA x : x >= 1500)
             total == Len(sizes)
         IN [counted |-> <<small, medium, large, jumbo>>,
             summary |-> <<[avg |-> SumOf(sizes, total) \div total,
                            min |-> SmallestOf(sizes), max |-> LargestOf(sizes),
                            small |-> small, large |-> large + jumbo]>>,
             rows |-> <<SizeRow("<100B", small, total),
                        SizeRow("100-500", medium, total),
                        SizeRow(">500B", large + jumbo, total)>>]

\* Sizes on both sides of each bucket limit.
SizeValues == {60, 99, 100, 499, 500, 1499, 1500, 9000}

SizeInit ==
    /\ DashboardIdle
    /\ call \in {[fn |-> "display_packet_size_analysis", packet_sizes |-> sizes] :
                    sizes \in SeqsUpTo(SizeValues, MaxSizes)}
    /\ ret = None
    /\ wtr = NoWriter
    /\ csv_file = None

\* Line 559 of display_dashboard: the call and what it prints.
SizeAnalysis ==
    /\ call.fn = "display_packet_size_analysis"
    /\ ret = None
    /\ ret' = Some(display_packet_size_analysis(call.packet_sizes))
    /\ UNCHANGED <<call, wtr, csv_file, Dashboard>>

SizeSpec == SizeInit /\ [][SizeAnalysis]_vars

\* --------------------------------------------- main and start_sniffing
\* The run of the program from main to its exit, in plain capture mode
\* (start_sniffing) or in dashboard mode (start_dashboard_mode).
\* `call` is the activation: its position, the frame in hand, what it
\* printed, exported and logged; args, captured_packets and packet_count
\* are the command line and the locals of start_sniffing; `ret` is the
\* outcome the process ends with.  An exported file is represented by the
\* slice of records handed to the export function.

\* Line 266: matches!(protocol.to_lowercase(), "tcp" | "udp" | "icmp" | "http" | "dns").
is_valid_protocol(protocol) ==
    ToLower(protocol) \in {<<"t", "c", "p">>,
                           <<"u", "d", "p">>,
                           <<"i", "c", "m", "p">>,
                           <<"h", "t", "t", "p">>,
                           <<"d", "n", "s">>}

\* The interfaces find_interface knows.
Interfaces == {"eth0"}

\* Command lines: a capture on an interface with each filter, limit and
\* export; and those main leaves early on.
CaptureArgs ==
    {[generate_config |-> FALSE, list_interfaces |-> FALSE, interface |-> Some("eth0"),
      dashboard |-> dash, count |-> k, protocol |-> proto, port |-> None,
      export_json |-> json, export_csv |-> csv] :
        dash \in BOOLEAN, k \in 0..CountLimit,
        proto \in {None, Some(<<"u", "d", "p">>), Some(<<"H", "T", "T", "P">>), Some(<<"T", "c", "p">>),
                   Some(<<"f", "t", "p">>), Some(<<"F", "T", "P">>)},
        json \in {None, Some("capture.json")},
        csv \in {None, Some("capture.csv")}}
EarlyArgs ==
    {[generate_config |-> gen, list_interfaces |-> list, interface |-> name,
      dashboard |-> FALSE, count |-> 0, protocol |-> Some(<<"f", "t", "p">>), port |-> None,
      export_json |-> None, export_csv |-> None] :
        gen \in BOOLEAN, list \in BOOLEAN, name \in {None, Some("eth0"), Some("wlan9")}}
MainArgs == CaptureArgs \cup EarlyArgs

NewActivation ==
    [fn |-> "main", pc |-> "generate_config", packet |-> None, summary |-> None,
     files |-> [json |-> None, csv |-> None], attempted |-> {}, log |-> <<>>]

MainInit ==
    /\ args \in MainArgs
    /\ stats = NewStats(0)
    /\ captured_packets = <<>>
    /\ pushed_points = <<>>
    /\ stats_lock = "free"
    /\ packets_lock = "free"
    /\ cpc = "exit"
    /\ rpc = "sleep"
    /\ packet_count = 0
    /\ packet_info = None
    /\ elapsed = None
    /\ clock = 0
    /\ failure = "none"
    /\ base = [n |-> 0, now |-> 0]
    /\ hist = <<>>
    /\ call = NewActivation
    /\ ret = None
    /\ wtr = NoWriter
    /\ csv_file = None

\* What start_sniffing and main leave alone.
MainFixed == <<args, stats, stats_lock, packets_lock, cpc, rpc, packet_info, elapsed,
               clock, base, hist, pushed_points, wtr, csv_file>>

Goto(pc) == call' = [call EXCEPT !.pc = pc]
Exit(outcome) == call' = [call EXCEPT !.pc = "exit"] /\ ret' = Some(outcome)
\* logger.log_error_with_context(context, &error); handle_error(&error).
ExitLogged(outcome, context) ==
    /\ call' = [call EXCEPT !.pc = "exit", !.log = Append(@, <<"error", context>>)]
    /\ ret' = Some(outcome)

\* Lines 166-169 and 230-239: --generate-config ends the run.
MainGenerateConfig ==
    /\ call.fn = "main" /\ call.pc = "generate_config"
    /\ IF args.generate_config
       THEN Exit("generated")
       ELSE Goto("load_config") /\ UNCHANGED ret
    /\ UNCHANGED <<MainFixed, captured_packets, packet_count, failure>>

\* Lines 166-169 and 240-243: the default configuration cannot be saved;
\* the run ends with status 1.
MainGenerateConfigFailed ==
    /\ call.fn = "main" /\ call.pc = "generate_config"
    /\ args.generate_config
    /\ Exit("GenerateConfigFailed")
    /\ UNCHANGED <<MainFixed, captured_packets, packet_count, failure>>

\* Lines 172-183: the configuration is loaded, the logger made and the
\* banner logged.
MainLoadConfig ==
    /\ call.fn = "main" /\ call.pc = "load_config"
    /\ call' = [call EXCEPT !.pc = "list_interfaces", !.log = Append(@, <<"banner">>)]
    /\ UNCHANGED <<MainFixed, captured_packets, packet_count, failure, ret>>

\* Lines 172-174, 177-180: the configuration cannot be loaded, or the
\* logger cannot be made.
MainLoadConfigFailed ==
    /\ call.fn = "main" /\ call.pc = "load_config"
    /\ \E outcome \in {"ConfigError", "LoggerError"} : Exit(outcome)
    /\ UNCHANGED <<MainFixed, captured_packets, packet_count, failure>>

\* Lines 184-187: --list-interfaces ends the run.
MainListInterfaces ==
    /\ call.fn = "main" /\ call.pc = "list_interfaces"
    /\ IF args.list_interfaces
       THEN Exit("listed")
       ELSE Goto("interface") /\ UNCHANGED ret
    /\ UNCHANGED <<MainFixed, captured_packets, packet_count, failure>>

\* Lines 189-206: the interface is named and found, or the error is logged
\* with its context and the run ends.
MainInterface ==
    /\ call.fn = "main" /\ call.pc = "interface"
    /\ IF ~IsSome(args.interface)
       THEN ExitLogged("InterfaceNotFound", "Interface selection")
       ELSE IF Unwrap(args.interface) \notin Interfaces
       THEN ExitLogged("InterfaceNotFound", "Interface discovery")
       ELSE Goto("validate") /\ UNCHANGED ret
    /\ UNCHANGED <<MainFixed, captured_packets, packet_count, failure>>

\* Variant of MainValidate: only a filter in lower case is looked at.
MainValidateLowerCaseOnly ==
    /\ call.fn = "main" /\ call.pc = "validate"
    /\ IF /\ IsSome(args.protocol)
          /\ ToLower(Unwrap(args.protocol)) = Unwrap(args.protocol)
          /\ ~is_valid_protocol(Unwrap(args.protocol))
       THEN ExitLogged("InvalidFilter", "Protocol filter validation")
       ELSE Goto("dispatch") /\ UNCHANGED ret
    /\ UNCHANGED <<MainFixed, captured_packets, packet_count, failure>>

\* Lines 208-215: the protocol filter is validated; an invalid one is
\* logged and ends the run.
MainValidate ==
    /\ call.fn = "main" /\ call.pc = "validate"
    /\ IF IsSome(args.protocol) /\ ~is_valid_protocol(Unwrap(args.protocol))
       THEN ExitLogged("InvalidFilter", "Protocol filter validation")
       ELSE Goto("dispatch") /\ UNCHANGED ret
    /\ UNCHANGED <<MainFixed, captured_packets, packet_count, failure>>

\* What main and start_sniffing leave alone besides the capture thread's
\* position.
MainFixedButThread == <<args, stats, stats_lock, packets_lock, rpc, packet_info, elapsed,
                        clock, base, hist, pushed_points, wtr, csv_file>>

\* Lines 217-223 and 316-341: the start of the capture is logged and the
\* capture started in one of its two modes; start_dashboard_mode makes the
\* shared state and spawns the capture thread.
MainDispatch ==
    /\ call.fn = "main" /\ call.pc = "dispatch"
    /\ call' = [call EXCEPT !.pc = IF args.dashboard THEN "start_dashboard_mode" ELSE "open",
                            !.log = Append(@, <<"start">>)]
    /\ cpc' = IF args.dashboard THEN "open" ELSE cpc
    /\ UNCHANGED <<MainFixedButThread, captured_packets, packet_count, failure, ret>>

\* Lines 343-352: the capture thread and the render loop of the dashboard,
\* until the render loop panics.
start_dashboard_mode ==
    /\ call.fn = "main" /\ call.pc = "start_dashboard_mode"
    /\ capture_packets_with_stats \/ display_dashboard

\* Lines 1148-1156: the channel is created.
SniffOpen ==
    /\ call.fn = "main" /\ call.pc = "open"
    /\ Goto("loop")
    /\ UNCHANGED <<MainFixed, captured_packets, packet_count, failure, ret>>

\* Lines 1150-1155 and 225-227: no channel; the error ends the run.
SniffOpenFailed ==
    /\ call.fn = "main" /\ call.pc = "open"
    /\ failure' = "open"
    /\ Exit("NetworkError")
    /\ UNCHANGED <<MainFixed, captured_packets, packet_count>>

\* Lines 1165-1168.
SniffLimit ==
    /\ call.fn = "main" /\ call.pc = "loop"
    /\ LimitReached
    /\ call' = [call EXCEPT !.pc = "summary", !.packet = None]
    /\ UNCHANGED <<MainFixed, captured_packets, packet_count, failure, ret>>

\* Lines 1170-1171: rx.next() gives a frame, `packet`, that the filter
\* rejects.
SniffRejected ==
    /\ call.fn = "main" /\ call.pc = "loop"
    /\ ~LimitReached
    /\ \E f \in Frames :
        /\ ~should_capture_packet(f, args)
        /\ call' = [call EXCEPT !.packet = Some(f)]
    /\ UNCHANGED <<MainFixed, captured_packets, packet_count, failure, ret>>

\* Variant of SniffAccepted: the record is numbered before the count of
\* the frame before it.
SniffAcceptedNumbersFromZero ==
    /\ call.fn = "main" /\ call.pc = "loop"
    /\ ~LimitReached
    /\ Len(captured_packets) < MaxIngest
    /\ \E f \in Frames, now \in Utc :
        /\ should_capture_packet(f, args)
        /\ captured_packets' =
            Append(captured_packets, analyze_packet_advanced(f, packet_count, now))
        /\ call' = [call EXCEPT !.packet = Some(f)]
    /\ packet_count' = packet_count + 1
    /\ UNCHANGED <<MainFixed, failure, ret>>

\* Lines 1170-1181: a frame the filter accepts: decoded, pushed, counted.
SniffAccepted ==
    /\ call.fn = "main" /\ call.pc = "loop"
    /\ ~LimitReached
    /\ Len(captured_packets) < MaxIngest
    /\ \E f \in Frames, now \in Utc :
        /\ should_capture_packet(f, args)
        /\ captured_packets' =
            Append(captured_packets, analyze_packet_advanced(f, packet_count + 1, now))
        /\ call' = [call EXCEPT !.packet = Some(f)]
    /\ packet_count' = packet_count + 1
    /\ UNCHANGED <<MainFixed, failure, ret>>

\* Lines 1190-1193: a read fails; the loop is left.
SniffReadFailed ==
    /\ call.fn = "main" /\ call.pc = "loop"
    /\ ~LimitReached
    /\ failure' = "read"
    /\ call' = [call EXCEPT !.pc = "summary", !.packet = None]
    /\ UNCHANGED <<MainFixed, captured_packets, packet_count, ret>>

\* Line 1198: display_final_summary(&captured_packets, ..).
SniffSummary ==
    /\ call.fn = "main" /\ call.pc = "summary"
    /\ call' = [call EXCEPT !.pc = "export_json", !.summary = Some(captured_packets)]
    /\ UNCHANGED <<MainFixed, captured_packets, packet_count, failure, ret>>

\* Lines 1201-1204 and 1349-1358: the JSON export, when asked for, and its
\* log entry.
SniffExportJson ==
    /\ call.fn = "main" /\ call.pc = "export_json"
    /\ call' = IF IsSome(args.export_json)
               THEN [call EXCEPT !.pc = "export_csv",
                                 !.attempted = @ \cup {"JSON"},
                                 !.files.json = Some(captured_packets),
                                 !.log = Append(@, <<"export", "JSON", Len(captured_packets)>>)]
               ELSE [call EXCEPT !.pc = "export_csv"]
    /\ UNCHANGED <<MainFixed, captured_packets, packet_count, failure, ret>>

\* Line 1202: export_to_json fails (1350-1354); `?` returns its error.
SniffExportJsonFailed ==
    /\ call.fn = "main" /\ call.pc = "export_json"
    /\ IsSome(args.export_json)
    /\ call' = [call EXCEPT !.pc = "exit", !.attempted = @ \cup {"JSON"}]
    /\ ret' = Some("ExportError")
    /\ UNCHANGED <<MainFixed, captured_packets, packet_count, failure>>

\* Lines 1206-1209 and 1360-1394: the CSV export, when asked for, and its
\* log entry.
SniffExportCsv ==
    /\ call.fn = "main" /\ call.pc = "export_csv"
    /\ call' = IF IsSome(args.export_csv)
               THEN [call EXCEPT !.pc = "stop",
                                 !.attempted = @ \cup {"CSV"},
                                 !.files.csv = Some(captured_packets),
                                 !.log = Append(@, <<"export", "CSV", Len(captured_packets)>>)]
               ELSE [call EXCEPT !.pc = "stop"]
    /\ UNCHANGED <<MainFixed, captured_packets, packet_count, failure, ret>>

\* Line 1207: export_to_csv fails; `?` returns its error.
SniffExportCsvFailed ==
    /\ call.fn = "main" /\ call.pc = "export_csv"
    /\ IsSome(args.export_csv)
    /\ call' = [call EXCEPT !.pc = "exit", !.attempted = @ \cup {"CSV"}]
    /\ ret' = Some("ExportError")
    /\ UNCHANGED <<MainFixed, captured_packets, packet_count, failure>>

\* Lines 1211-1212: the capture-stop log entry and Ok(()).
SniffStop ==
    /\ call.fn = "main" /\ call.pc = "stop"
    /\ call' = [call EXCEPT !.pc = "exit",
                            !.log = Append(@, <<"stop", Len(captured_packets)>>)]
    /\ ret' = Some("Ok")
    /\ UNCHANGED <<MainFixed, captured_packets, packet_count, failure>>

start_sniffing ==
    \/ SniffOpen \/ SniffOpenFailed \/ SniffLimit \/ SniffRejected \/ SniffAccepted
    \/ SniffReadFailed \/ SniffSummary \/ SniffExportJson \/ SniffExportJsonFailed
    \/ SniffExportCsv \/ SniffExportCsvFailed \/ SniffStop

main ==
    \/ MainGenerateConfig \/ MainGenerateConfigFailed
    \/ MainLoadConfig \/ MainLoadConfigFailed
    \/ MainListInterfaces \/ MainInterface \/ MainValidate \/ MainDispatch
    \/ start_dashboard_mode
    \/ start_sniffing

MainSpec == MainInit /\ [][main]_vars

\* ================================================================ history
\* The records accepted before the first state, per first state.
PrefillHistory ==
    [pre \in Prefills |-> [i \in 1..pre.n |-> PrefillRecord(i, pre.now)]]

RECURSIVE SumSizes(_, _, _)
SumSizes(recs, lo, hi) ==
    IF lo > hi THEN 0
    ELSE IF lo = hi THEN recs[lo].packet_size
    ELSE LET mid == (lo + hi) \div 2 IN SumSizes(recs, lo, mid) + SumSizes(recs, mid + 1, hi)

SizesOf(recs) == [i \in 1..Len(recs) |-> recs[i].packet_size]
AlertOf(p) == <<p.timestamp, alert_msg(p), p.threat_level>>
NotSafe(p) == p.threat_level # "Safe"
AlertsOf(recs) == LET a == SelectSeq(recs, NotSafe) IN [i \in 1..Len(a) |-> AlertOf(a[i])]

PrefillBytes == [pre \in Prefills |-> SumSizes(PrefillHistory[pre], 1, pre.n)]
PrefillSizes == [pre \in Prefills |-> SizesOf(PrefillHistory[pre])]
PrefillAlerts == [pre \in Prefills |-> AlertsOf(PrefillHistory[pre])]

\* The records of this behaviour that have passed a position of the
\* iteration: all those accepted, but for the one in hand while the capture
\* thread is at one of the positions `before`.
Passed(before) == IF cpc \in before THEN SubSeq(hist, 1, Len(hist) - 1) ELSE hist

BeforeTotals == {"lock_stats", "poisoned_stats", "update_totals"}
BeforeAlert == BeforeTotals \cup {"track_activity"}
BeforeFlows == BeforeAlert \cup {"track_connections"}
InStats == {"update_totals", "track_activity", "track_connections",
            "sample_bandwidth", "finish_stats"}
BeforeStatsEnd == {"lock_stats", "poisoned_stats"} \cup InStats
BeforeRecent == BeforeStatsEnd \cup {"lock_packets", "poisoned_packets", "push_recent"}

LastN(v, k) == SubSeq(v, Len(v) - k + 1, Len(v))

\* ================================================================= claims
\* C1: outside the stats critical section, after N completed Ingest steps,
\* total_packets is N and total_bytes is the sum of packet_size over those
\* N records.
C1_TotalsCountEveryRecord ==
    stats_lock # "capture" =>
        LET done == Passed(BeforeStatsEnd) IN
        /\ stats.total_packets = base.n + Len(done)
        /\ stats.total_bytes = PrefillBytes[base] + SumSizes(done, 1, Len(done))

C1_Witness ==
    /\ cpc = "loop"
    /\ stats_lock = "free"
    /\ Len(hist) = 2
    /\ hist[1].packet_size # hist[2].packet_size

\* C2: whenever the capture thread does not hold the guarding mutex,
\* packet_sizes has at most 1000 elements, bandwidth_history at most 100,
\* threat_alerts at most 100 and the recent-record buffer at most 1000.
C2_BuffersWithinCapacity ==
    /\ stats_lock # "capture" =>
        /\ Len(stats.packet_sizes) <= PacketSizesCap
        /\ Len(stats.bandwidth_history) <= BandwidthCap
        /\ Len(stats.threat_alerts) <= ThreatAlertsCap
    /\ packets_lock # "capture" => Len(captured_packets) <= RecentCap

\* Every buffer has overflowed and the capture thread is back at the loop head.
C2_Witness ==
    /\ cpc = "loop"
    /\ Len(hist) >= 1
    /\ stats.total_packets > PacketSizesCap
    /\ Len(SelectSeq(hist, NotSafe)) >= 1
    /\ Len(PrefillAlerts[base]) >= ThreatAlertsCap
    /\ Len(pushed_points) > BandwidthCap
    /\ Len(stats.packet_sizes) = PacketSizesCap
    /\ Len(stats.bandwidth_history) = BandwidthCap
    /\ Len(stats.threat_alerts) = ThreatAlertsCap
    /\ Len(captured_packets) = RecentCap

\* C3: whenever the capture thread does not hold the guarding mutex, each
\* bounded buffer holds exactly the last min(n, capacity) of the n elements
\* inserted into it so far, in insertion order.
C3_BuffersKeepNewestInOrder ==
    /\ stats_lock # "capture" =>
        LET done == Passed(BeforeStatsEnd)
            sizes == PrefillSizes[base] \o SizesOf(done)
            alerts == PrefillAlerts[base] \o AlertsOf(done)
        IN /\ stats.packet_sizes = LastN(sizes, Min(Len(sizes), PacketSizesCap))
           /\ stats.threat_alerts = LastN(alerts, Min(Len(alerts), ThreatAlertsCap))
           /\ stats.bandwidth_history =
                  LastN(pushed_points, Min(Len(pushed_points), BandwidthCap))
    /\ packets_lock # "capture" =>
        LET recs == PrefillHistory[base] \o Passed(BeforeRecent) IN
        captured_packets = LastN(recs, Min(Len(recs), RecentCap))

\* Two records were inserted after every buffer was full: two elements have
\* been evicted from each and the two newest are at the end.
C3_Witness ==
    /\ cpc = "loop"
    /\ Len(hist) = 2
    /\ NotSafe(hist[1]) /\ NotSafe(hist[2])
    /\ Len(pushed_points) > BandwidthCap
    /\ Len(PrefillAlerts[base]) >= ThreatAlertsCap
    /\ Len(stats.packet_sizes) = PacketSizesCap
    /\ Len(captured_packets) = RecentCap
    /\ captured_packets[RecentCap] = hist[2]
    /\ captured_packets[RecentCap - 1] = hist[1]

\* C4: whenever the render loop holds the NetworkStats mutex, the stats are
\* those after a whole number of records: the capture thread is not inside
\* its stats critical section, and the fields written first and last in the
\* section agree on the number of records.
C4_RenderSeesWholeIngests ==
    stats_lock = "render" =>
        LET done == Passed(BeforeStatsEnd) IN
        /\ cpc \notin InStats
        /\ stats.total_packets = base.n + Len(done)
        /\ Len(stats.packet_sizes) = Min(stats.total_packets, PacketSizesCap)
        /\ stats.current_connections = Cardinality(DOMAIN stats.connections)
        /\ Len(stats.bandwidth_history) = Min(Len(pushed_points), BandwidthCap)

\* The render loop prints while the capture thread waits with a record in hand.
C4_Witness ==
    /\ rpc = "print"
    /\ stats_lock = "render"
    /\ cpc = "lock_stats"
    /\ Len(hist) = 2

\* C5 (as claimed): no print step of display_dashboard happens while the
\* render loop holds the NetworkStats mutex or the recent-record mutex.
C5_PrintsWithoutMutex ==
    rpc = "print" => (stats_lock # "render" /\ packets_lock # "render")

\* C6: every flow's threat_level is the maximum level over the records
\* mapped to its key so far, and the table has a flow for exactly the keys
\* of the records with both addresses.
HasBothAddresses(p) == IsSome(p.src_ip) /\ IsSome(p.dst_ip)
KeyLevels(recs) ==
    {<<connection_key(recs[i]), recs[i].threat_level>> :
        i \in {j \in 1..Len(recs) : HasBothAddresses(recs[j])}}
PrefillKeyLevels == [pre \in Prefills |-> KeyLevels(PrefillHistory[pre])]

C6_FlowLevelIsMaximum ==
    LET seen == PrefillKeyLevels[base] \cup KeyLevels(Passed(BeforeFlows)) IN
    /\ DOMAIN stats.connections = {kl[1] : kl \in seen}
    /\ \A key \in DOMAIN stats.connections :
        /\ <<key, stats.connections[key].threat_level>> \in seen
        /\ \A kl \in seen :
            kl[1] = key =>
                ThreatRank(kl[2]) <= ThreatRank(stats.connections[key].threat_level)

\* A Low record and then a Safe record of the same key: the flow stays Low.
C6_Witness ==
    /\ cpc = "loop"
    /\ Len(hist) = 2
    /\ hist[1].threat_level = "Low"
    /\ hist[2].threat_level = "Safe"
    /\ HasBothAddresses(hist[1]) /\ HasBothAddresses(hist[2])
    /\ connection_key(hist[1]) = connection_key(hist[2])
    /\ stats.connections[connection_key(hist[2])].threat_level = "Low"

\* C7: an Ingest pushes a bandwidth point if and only if the new
\* total_packets is a multiple of 100 and the whole seconds elapsed since
\* start_time are more than 0; nothing else pushes one; every point pushed
\* belongs to its own multiple of 100 and to an elapsed time above 0, so
\* there are never more points than floor(total_packets / 100).
C7_PointsSoFar ==
    /\ Len(pushed_points) <= stats.total_packets \div SampleEvery
    /\ \A i \in 1..Len(pushed_points) :
        /\ pushed_points[i].packets_per_sec.den > 0
        /\ pushed_points[i].packets_per_sec.num % SampleEvery = 0
        /\ pushed_points[i].packets_per_sec.num <= stats.total_packets
        /\ \A j \in 1..(i - 1) :
            pushed_points[j].packets_per_sec.num < pushed_points[i].packets_per_sec.num

C7_PushStep ==
    IF cpc = "sample_bandwidth" /\ cpc' = "finish_stats"
    THEN /\ (Len(stats'.bandwidth_history) = Len(stats.bandwidth_history) + 1)
                <=> (stats.total_packets % SampleEvery = 0 /\ clock - stats.start_time > 0)
         /\ Len(stats'.bandwidth_history) \in
                {Len(stats.bandwidth_history), Len(stats.bandwidth_history) + 1}
    ELSE /\ Len(stats'.bandwidth_history) <= Len(stats.bandwidth_history)
         /\ pushed_points' = pushed_points

C7_SampledOncePerHundred == [](C7_PointsSoFar) /\ [][C7_PushStep]_vars

\* The hundredth record has been ingested after the first second: one point.
C7_Witness ==
    /\ cpc = "finish_stats"
    /\ stats.total_packets = SampleEvery
    /\ elapsed = Some(1)
    /\ Len(pushed_points) = 1
    /\ Len(stats.bandwidth_history) = 1

\* C8: there is no state in which the capture thread waits for a mutex the
\* render loop holds while the render loop waits for a mutex the capture
\* thread holds.
CaptureWaitsForRender ==
    \/ (cpc = "lock_stats" /\ stats_lock = "render")
    \/ (cpc = "lock_packets" /\ packets_lock = "render")
RenderWaitsForCapture ==
    \/ (rpc = "lock_stats" /\ stats_lock = "capture")
    \/ (rpc = "lock_packets" /\ packets_lock = "capture")

C8_NoCircularWait == ~(CaptureWaitsForRender /\ RenderWaitsForCapture)

\* Each thread has waited for the other: here the render loop waits for the
\* recent-record mutex while the capture thread pushes its second record.
C8_Witness ==
    /\ rpc = "lock_packets"
    /\ stats_lock = "render"
    /\ packets_lock = "capture"
    /\ cpc = "trim_recent"
    /\ Len(hist) = 2

\* C9 (as claimed): under fair scheduling every accepted record is applied
\* to NetworkStats and then appended to the recent-record buffer, full
\* buffers or not, however often the render loop ticks.
Stored ==
    /\ cpc = "loop"
    /\ Len(hist) > 0
    /\ stats.total_packets = base.n + Len(hist)
    /\ Len(captured_packets) > 0
    /\ captured_packets[Len(captured_packets)] = hist[Len(hist)]

C9_AcceptedRecordIsStored == (cpc = "lock_stats") ~> Stored

\* C10 (as claimed): once the capture source has failed (no channel, or a
\* failed read) the capture thread has returned, NetworkStats and the
\* recent-record buffer never change again, and the render loop always has
\* a next step: it keeps ticking.
C10_FailureEndsIngestion ==
    /\ [](failure # "none" => (cpc = "exit" /\ ENABLED display_dashboard))
    /\ [][failure # "none" => UNCHANGED <<stats, captured_packets>>]_vars

\* C11 (as claimed): the connection key includes the protocol, so every
\* record mapped to a flow has that flow's protocol.
KeyProtocols(recs) ==
    {<<connection_key(recs[i]), recs[i].protocol>> :
        i \in {j \in 1..Len(recs) : HasBothAddresses(recs[j])}}
PrefillKeyProtocols == [pre \in Prefills |-> KeyProtocols(PrefillHistory[pre])]

C11_FlowRecordsShareProtocol ==
    \A kp \in PrefillKeyProtocols[base] \cup KeyProtocols(Passed(BeforeFlows)) :
        kp[1] \in DOMAIN stats.connections
            => stats.connections[kp[1]].protocol = kp[2]

\* C12 (as claimed): the connection key is unordered, so a record from A to
\* B and a record from B to A of the same protocol are counted in one flow.
Reversed(p, q) ==
    /\ HasBothAddresses(p) /\ HasBothAddresses(q)
    /\ p.protocol = q.protocol
    /\ p.src_ip = q.dst_ip /\ p.dst_ip = q.src_ip
    /\ p.src_port = q.dst_port /\ p.dst_port = q.src_port

C12_BothDirectionsOneFlow ==
    LET done == Passed(BeforeFlows) IN
    \A i, j \in 1..Len(done) :
        Reversed(done[i], done[j]) /\ done[i].src_ip # done[i].dst_ip
            => \E key \in DOMAIN stats.connections :
                /\ stats.connections[key].packet_count >= 2
                /\ \A other \in DOMAIN stats.connections :
                    LET f == stats.connections[other] IN
                    ({f.src_ip, f.dst_ip} = {Unwrap(done[i].src_ip), Unwrap(done[i].dst_ip)}
                        /\ f.protocol = done[i].protocol)
                        => other = key

\* C13 (as claimed): across every step, every flow of the connections
\* table stays in the table, its packet_count and total_bytes do not
\* decrease, its last_seen does not move backward, its threat_level does
\* not decrease and its first_seen does not change.
C13_FlowStep ==
    \A key \in DOMAIN stats.connections :
        /\ key \in DOMAIN stats'.connections
        /\ LET old == stats.connections[key]
               new == stats'.connections[key]
           IN /\ new.packet_count >= old.packet_count
              /\ new.total_bytes >= old.total_bytes
              /\ new.last_seen >= old.last_seen
              /\ ThreatRank(new.threat_level) >= ThreatRank(old.threat_level)
              /\ new.first_seen = old.first_seen

C13_FlowsOnlyGrow == [][C13_FlowStep]_vars

\* C14: the connections table has a flow for exactly the keys of the
\* records that have both addresses; a flow's packet_count is the number of
\* those records of its key and its total_bytes the sum of their sizes; the
\* packet_counts add up to the number of records that have both addresses.
OfKey(recs, key) ==
    {i \in 1..Len(recs) : HasBothAddresses(recs[i]) /\ connection_key(recs[i]) = key}
KeysOf(recs) ==
    {connection_key(recs[i]) : i \in {j \in 1..Len(recs) : HasBothAddresses(recs[j])}}

RECURSIVE SumOver(_, _)
SumOver(f, S) ==
    IF S = {} THEN 0
    ELSE LET x == CHOOSE y \in S : TRUE IN f[x] + SumOver(f, S \ {x})

\* Per first state and key: the number and the sizes' sum of the earlier records.
PrefillFlows ==
    [pre \in Prefills |->
        LET recs == PrefillHistory[pre] IN
        [key \in KeysOf(recs) |->
            LET HasKey(p) == HasBothAddresses(p) /\ connection_key(p) = key
                sel == SelectSeq(recs, HasKey)
            IN [n |-> Len(sel), bytes |-> SumSizes(sel, 1, Len(sel))]]]

C14_FlowsCountTheirRecords ==
    LET done == Passed(BeforeFlows)
        pre == PrefillFlows[base]
        keys == DOMAIN pre \cup KeysOf(done)
        count == [key \in keys |->
                    (IF key \in DOMAIN pre THEN pre[key].n ELSE 0)
                        + Cardinality(OfKey(done, key))]
        bytes == [key \in keys |->
                    (IF key \in DOMAIN pre THEN pre[key].bytes ELSE 0)
                        + SumOver([i \in 1..Len(done) |-> done[i].packet_size],
                                  OfKey(done, key))]
    IN /\ DOMAIN stats.connections = keys
       /\ \A key \in keys :
            /\ stats.connections[key].packet_count = count[key]
            /\ stats.connections[key].total_bytes = bytes[key]
       /\ SumOver([key \in keys |-> stats.connections[key].packet_count], keys)
            = base.n + Cardinality({i \in 1..Len(done) : HasBothAddresses(done[i])})

\* A record without addresses and then the first record of a flow.
C14_Witness ==
    /\ cpc = "loop"
    /\ base.n = 0
    /\ Len(hist) = 2
    /\ ~HasBothAddresses(hist[1])
    /\ HasBothAddresses(hist[2])
    /\ DOMAIN stats.connections = {connection_key(hist[2])}
    /\ stats.connections[connection_key(hist[2])].packet_count = 1
    /\ stats.connections[connection_key(hist[2])].total_bytes = hist[2].packet_size

\* C15: detect_threat_level returns the level of the additive score: port
\* signal (destination port, else source port: +3, +2, +1 above 49152),
\* destination-address signal, size signal (+1 above 1500 or below 64),
\* protocol signal (+1 ICMP, +1 UDP not to port 53), mapped 0-1 Safe, 2-3
\* Low, 4-5 Medium, 6-7 High, 8 and more Critical; a 100-byte TCP record
\* to port 3389 at a public address is Medium.
C15_PortSignal(p) ==
    LET port == IF p.dst_port # None THEN p.dst_port ELSE p.src_port IN
    IF port = None THEN 0
    ELSE CASE port[1] \in {1433, 3389, 5900, 23, 135, 139, 445} -> 3
           [] port[1] \in {21, 25, 110, 143, 993, 995} -> 2
           [] port[1] \notin {1433, 3389, 5900, 23, 135, 139, 445,
                              21, 25, 110, 143, 993, 995} /\ port[1] > 49152 -> 1
           [] OTHER -> 0
C15_SizeSignal(p) == IF p.packet_size \in 64..1500 THEN 0 ELSE 1
C15_ProtocolSignal(p) ==
    CASE p.protocol = "ICMP" -> 1
      [] p.protocol = "UDP" /\ p.dst_port # Some(53) -> 1
      [] OTHER -> 0
C15_Level(score) ==
    CASE score \in {0, 1} -> "Safe"
      [] score \in {2, 3} -> "Low"
      [] score \in {4, 5} -> "Medium"
      [] score \in {6, 7} -> "High"
      [] OTHER -> "Critical"

C15_LevelOfAdditiveScore ==
    (call.fn = "detect_threat_level" /\ ret # None) =>
        LET p == call.packet_info IN
        /\ ret[1] = C15_Level(C15_PortSignal(p)
                              + NonPrivateIncrement(p) + PatternIncrement(p)
                              + C15_SizeSignal(p) + C15_ProtocolSignal(p))
        /\ (/\ p.protocol = "TCP" /\ p.packet_size = 100
            /\ p.dst_port = Some(3389) /\ p.dst_ip = Some(<<8, 8, 8, 8>>))
                => ret[1] = "Medium"

\* The record of the example has been classified.
C15_Witness ==
    /\ call.fn = "detect_threat_level"
    /\ call.packet_info.protocol = "TCP"
    /\ call.packet_info.packet_size = 100
    /\ call.packet_info.dst_port = Some(3389)
    /\ call.packet_info.dst_ip = Some(<<8, 8, 8, 8>>)
    /\ ret = Some("Medium")

\* C17 (as claimed): the +1 for a destination that is not private is added
\* if and only if the destination is present and outside 10.0.0.0/8,
\* 172.16.0.0/12, 192.168.0.0/16 and 127.0.0.0/8, so the level returned is
\* the level of the score with this increment.
C17_ListedPrivate(ip) ==
    \/ ip[1] = 10
    \/ (ip[1] = 172 /\ ip[2] \in 16..31)
    \/ (ip[1] = 192 /\ ip[2] = 168)
    \/ ip[1] = 127
C17_Increment(p) ==
    IF p.dst_ip # None /\ ~C17_ListedPrivate(p.dst_ip[1]) THEN 1 ELSE 0

C17_IncrementOutsideListedRanges ==
    (call.fn = "detect_threat_level" /\ ret # None) =>
        LET p == call.packet_info IN
        ret[1] = C15_Level(C15_PortSignal(p)
                            + C17_Increment(p) + PatternIncrement(p)
                            + C15_SizeSignal(p) + C15_ProtocolSignal(p))

\* C18 (as claimed): under the protocol filter "http", in any case of the
\* letters, only TCP packets with source or destination port 80 or 8080
\* are accepted, and under "dns" only UDP packets with source or
\* destination port 53; a frame whose headers cannot be parsed is not.
C18_SameLetter(a, b) ==
    \/ a = b
    \/ \E i \in DOMAIN UpperLetters : {a, b} = {UpperLetters[i], LowerLetters[i]}
C18_Spells(name, word) ==
    /\ Len(name) = Len(word)
    /\ \A i \in 1..Len(word) : C18_SameLetter(name[i], word[i])
C18_Lower(name) ==
    CASE C18_Spells(name, <<"h", "t", "t", "p">>) -> "http"
      [] C18_Spells(name, <<"d", "n", "s">>) -> "dns"
      [] OTHER -> "other"
C18_IsPacketOf(f, next, ports) ==
    /\ f.eth_ok /\ f.ethertype = "Ipv4" /\ f.ip_ok
    /\ f.next = next /\ f.l4_ok
    /\ (f.sport \in ports \/ f.dport \in ports)

C18_HttpAndDnsAcceptOnlyTheirPackets ==
    (call.fn = "should_capture_packet" /\ ret = Some(TRUE) /\ call.args.protocol # None) =>
        LET filter == C18_Lower(call.args.protocol[1]) IN
        /\ filter = "http" => C18_IsPacketOf(call.packet, "Tcp", {80, 8080})
        /\ filter = "dns" => C18_IsPacketOf(call.packet, "Udp", {53})

\* C19 (as claimed): with a protocol filter that is none of tcp, udp, icmp,
\* http, dns and no port filter, should_capture_packet returns true for
\* every frame.
C19_UnknownFilterAcceptsEveryFrame ==
    (/\ call.fn = "should_capture_packet"
     /\ ret # None
     /\ call.args.protocol = Some(<<"f", "t", "p">>)
     /\ call.args.port = None)
        => ret = Some(TRUE)

\* C20: after export_to_csv returned Ok on N records, reading the file as
\* CSV gives the header row with the 11 column names in order and then N
\* rows in record order, each of 11 fields; an absent optional field is the
\* empty field, and the fields read back are the record's values: numbers
\* and addresses parse to the record's, texts are the record's.
C20_Columns ==
    <<<<"t", "i", "m", "e", "s", "t", "a", "m", "p">>,
     <<"p", "a", "c", "k", "e", "t", "_", "n", "u", "m", "b", "e", "r">>,
     <<"s", "r", "c", "_", "i", "p">>,
     <<"d", "s", "t", "_", "i", "p">>,
     <<"p", "r", "o", "t", "o", "c", "o", "l">>,
     <<"s", "r", "c", "_", "p", "o", "r", "t">>,
     <<"d", "s", "t", "_", "p", "o", "r", "t">>,
     <<"p", "a", "c", "k", "e", "t", "_", "s", "i", "z", "e">>,
     <<"f", "l", "a", "g", "s">>,
     <<"a", "p", "p", "l", "i", "c", "a", "t", "i", "o", "n", "_", "p", "r", "o", "t", "o", "c", "o", "l">>,
     <<"d", "e", "s", "c", "r", "i", "p", "t", "i", "o", "n">>>>

\* A CSV reader.  A comma or a line break with an even number of quotes
\* before it separates fields or records; a field that starts with a quote
\* stands for the text between its outer quotes with every doubled quote
\* read as one; an empty line is no record.
C20_Outside(text, i) == Cardinality({j \in 1..(i - 1) : text[j] = "\""}) % 2 = 0
C20_Cuts(text, c) == {i \in 1..Len(text) : text[i] = c /\ C20_Outside(text, i)}
C20_Nth(S, k) == CHOOSE i \in S : Cardinality({j \in S : j <= i}) = k
C20_Pieces(text, cuts) ==
    LET n == Cardinality(cuts) IN
    [k \in 1..(n + 1) |->
        SubSeq(text,
               IF k = 1 THEN 1 ELSE C20_Nth(cuts, k - 1) + 1,
               IF k = n + 1 THEN Len(text) ELSE C20_Nth(cuts, k) - 1)]
C20_Unquote(field) ==
    IF field = <<>> \/ field[1] # "\"" THEN field
    ELSE LET inner == SubSeq(field, 2, Len(field) - 1)
             kept == {i \in 1..Len(inner) : inner[i] # "\"" \/ ~C20_Outside(inner, i)}
         IN [k \in 1..Cardinality(kept) |-> inner[C20_Nth(kept, k)]]
C20_Fields(line) ==
    LET raw == C20_Pieces(line, C20_Cuts(line, ",")) IN
    [k \in 1..Len(raw) |-> C20_Unquote(raw[k])]
C20_NotEmpty(line) == line # <<>>
C20_Rows(text) ==
    LET lines == SelectSeq(C20_Pieces(text, C20_Cuts(text, "\n")), C20_NotEmpty) IN
    [k \in 1..Len(lines) |-> C20_Fields(lines[k])]

\* Decimal digits to the number; -1 for anything else.
C20_IsDigit(c) == \E d \in 1..10 : DigitChar[d] = c
RECURSIVE C20_Number(_)
C20_Number(text) ==
    IF text = <<>> \/ ~C20_IsDigit(text[Len(text)]) THEN -1
    ELSE LET d == (CHOOSE k \in 1..10 : DigitChar[k] = text[Len(text)]) - 1 IN
         IF Len(text) = 1 THEN d
         ELSE LET front == C20_Number(SubSeq(text, 1, Len(text) - 1)) IN
              IF front < 0 THEN -1 ELSE front * 10 + d

\* The parts of a text between dots.
RECURSIVE C20_Split(_, _, _)
C20_Split(text, part, parts) ==
    IF text = <<>> THEN Append(parts, part)
    ELSE IF Head(text) = "." THEN C20_Split(Tail(text), <<>>, Append(parts, part))
    ELSE C20_Split(Tail(text), Append(part, Head(text)), parts)
C20_Address(text) ==
    LET parts == C20_Split(text, <<>>, <<>>) IN [k \in 1..Len(parts) |-> C20_Number(parts[k])]

\* An optional value read back: none for the empty field.
C20_OptNumber(field) == IF field = <<>> THEN None ELSE Some(C20_Number(field))
C20_OptAddress(field) == IF field = <<>> THEN None ELSE Some(C20_Address(field))

C20_RowIsRecord(row, p) ==
    /\ Len(row) = 11
    /\ Len(row[1]) = 25 /\ C20_Number(SubSeq(row[1], 18, 19)) = p.timestamp
    /\ C20_Number(row[2]) = p.packet_number
    /\ C20_OptAddress(row[3]) = p.src_ip
    /\ C20_OptAddress(row[4]) = p.dst_ip
    /\ row[5] = ProtocolText(p.protocol)
    /\ C20_OptNumber(row[6]) = p.src_port
    /\ C20_OptNumber(row[7]) = p.dst_port
    /\ C20_Number(row[8]) = p.packet_size
    /\ row[9] = (IF p.flags = None THEN <<>> ELSE p.flags[1])
    /\ row[10] = (IF p.application_protocol = None THEN <<>> ELSE p.application_protocol[1])
    /\ row[11] = p.description

C20_CsvReadsBack ==
    (call.fn = "export_to_csv" /\ ret = Some("Ok")) =>
        /\ csv_file # None
        /\ LET rows == C20_Rows(csv_file[1]) IN
            /\ Len(rows) = Len(call.packets) + 1
            /\ rows[1] = C20_Columns
            /\ \A i \in 1..Len(call.packets) : C20_RowIsRecord(rows[i + 1], call.packets[i])

\* Two records were exported: one with every optional field absent, then
\* one whose description had to be quoted.
C20_Witness ==
    /\ call.fn = "export_to_csv"
    /\ ret = Some("Ok")
    /\ Len(call.packets) = 2
    /\ call.packets[1].src_ip = None /\ call.packets[1].dst_port = None
    /\ call.packets[1].flags = None /\ call.packets[1].application_protocol = None
    /\ NeedsQuotes(call.packets[2].description)
    /\ Len(C20_Rows(csv_file[1])) = 3

\* C21: the step of an Ingest that records alerts appends one alert if the
\* record's threat_level is not Safe and none if it is, and no other step
\* appends one; threat_alerts holds no alert of level Safe; the alerts
\* appended so far are as many as the non-Safe records ingested, so that
\* threat_alerts holds that many, up to its capacity.
C21_AlertStep ==
    IF cpc = "track_activity" /\ cpc' = "track_connections"
    THEN Len(stats'.threat_alerts) =
            Len(stats.threat_alerts) + (IF packet_info[1].threat_level = "Safe" THEN 0 ELSE 1)
    ELSE Len(stats'.threat_alerts) <= Len(stats.threat_alerts)

C21_AlertsSoFar ==
    /\ \A i \in 1..Len(stats.threat_alerts) : stats.threat_alerts[i][3] # "Safe"
    /\ stats_lock # "capture" =>
        LET done == Passed(BeforeStatsEnd)
            nonsafe == Len(PrefillAlerts[base])
                        + Cardinality({i \in 1..Len(done) : done[i].threat_level # "Safe"})
        IN Len(stats.threat_alerts) = Min(nonsafe, ThreatAlertsCap)

C21_AlertPerNonSafeRecord == [](C21_AlertsSoFar) /\ [][C21_AlertStep]_vars

\* A Safe record and a Low record were ingested into empty stats: one alert.
C21_Witness ==
    /\ cpc = "loop"
    /\ base.n = 0
    /\ Len(hist) = 2
    /\ hist[1].threat_level = "Safe"
    /\ hist[2].threat_level = "Low"
    /\ Len(stats.threat_alerts) = 1
    /\ stats.threat_alerts[1][3] = "Low"

\* C22: with a packet count limit K > 0 the capture thread never starts on
\* a record once K have been ingested, and when it has left its loop with
\* no failure of the source exactly K records that passed the filter have
\* been ingested; packet_count changes only at the end of the ingestion of
\* an accepted record, by one, so that a rejected frame does not count;
\* with limit 0 the loop is left only when the source fails.
C22_CountStep ==
    packet_count' # packet_count =>
        /\ cpc = "trim_recent" /\ cpc' = "loop"
        /\ packet_count' = packet_count + 1

C22_LimitSoFar ==
    /\ args.count > 0 =>
        /\ packet_count <= args.count
        /\ Len(hist) <= args.count
        /\ (cpc = "exit" /\ failure = "none") =>
            /\ packet_count = args.count
            /\ Len(hist) = args.count
            /\ stats.total_packets = args.count
            /\ Len(captured_packets) = args.count
    /\ args.count = 0 => (cpc = "exit" => failure # "none")
    /\ packet_count = base.n + Len(Passed(BeforeRecent \cup {"trim_recent"}))

C22_LimitCountsAcceptedRecords == [](C22_LimitSoFar) /\ [][C22_CountStep]_vars

\* The limit of one record has been reached though another could be had.
C22_Witness ==
    /\ cpc = "exit"
    /\ failure = "none"
    /\ args.count = 1
    /\ args.count < MaxIngest
    /\ packet_count = 1
    /\ Len(hist) = 1

\* C23 (as claimed): in dashboard mode, once the capture has ended, by its
\* count limit or by a failure of the source, with a CSV export path given,
\* export_to_csv eventually runs and the file comes to exist.
C23_ExportAtCaptureEnd ==
    (cpc = "exit" /\ args.export_csv # None) ~> (csv_file # None)

\* C24: no step of the render loop changes NetworkStats or the
\* recent-record buffer; every step that changes one of them is a step of
\* the capture thread inside the ingestion of a record.
C24_RenderStep ==
    /\ rpc' # rpc => (stats' = stats /\ captured_packets' = captured_packets)
    /\ (stats' # stats \/ captured_packets' # captured_packets) =>
        /\ cpc \in InStats \cup {"push_recent", "trim_recent"}
        /\ cpc' # cpc
        /\ rpc' = rpc

C24_RenderIsReadOnly == [][C24_RenderStep]_vars

\* The render loop has taken both mutexes and prints from full buffers
\* while the capture thread waits for the recent-record mutex with a record
\* in hand.
C24_Witness ==
    /\ rpc = "print"
    /\ cpc = "lock_packets"
    /\ packets_lock = "render"
    /\ Len(hist) = 1
    /\ hist[1].threat_level # "Safe"
    /\ Len(captured_packets) = RecentCap
    /\ Len(stats.threat_alerts) = ThreatAlertsCap

\* C25 (as claimed): the graph shows the last min(20, n) points of
\* bandwidth_history in order, and a bar's length is 40 times the point's
\* bytes_per_sec over the largest bytes_per_sec of the points shown, as a
\* whole number, or one less where the f64 quotient falls just below it; so
\* the largest point shown has the full length of 40.
C25_Largest(points) ==
    LET rates == {points[i].bytes_per_sec : i \in 1..Len(points)} IN
    CHOOSE r \in rates : \A other \in rates : ~RateGt(other, r)

C25_BarsScaledToWindow ==
    (call.fn = "display_bandwidth_graph" /\ ret # None) =>
        LET h == call.bandwidth_history
            k == IF Len(h) < 20 THEN Len(h) ELSE 20
            bars == ret[1]
        IN /\ Len(bars) = k
           /\ \A i \in 1..k : bars[i].time = h[Len(h) - k + i].timestamp
           /\ k > 0 =>
                LET top == C25_Largest(SubSeq(h, Len(h) - k + 1, Len(h))) IN
                top.num > 0 =>
                    /\ \A i \in 1..k :
                        LET v == h[Len(h) - k + i].bytes_per_sec IN
                        LET whole == (40 * v.num * top.den) \div (v.den * top.num) IN
                        bars[i].bar_length \in {whole, whole - 1}
                    /\ \E i \in 1..k : bars[i].bar_length = 40

\* C26: the step of an Ingest that tracks activity adds one to
\* port_activity for the record's destination port if it has one, else for
\* its source port if it has one, else for none, and changes no other count;
\* so each port's count is the number of ingested records counted for it,
\* and the counts add up to the number of ingested records with a port.
C26_Port(p) == OptOr(p.dst_port, p.src_port)
C26_Count(m, port) == IF port \in DOMAIN m THEN m[port] ELSE 0
C26_CountedFor(recs, port) ==
    Cardinality({i \in 1..Len(recs) : C26_Port(recs[i]) = Some(port)})
C26_PortsOf(recs) ==
    {Unwrap(C26_Port(recs[i])) : i \in {j \in 1..Len(recs) : IsSome(C26_Port(recs[j]))}}
C26_PrefillPorts ==
    [pre \in Prefills |->
        LET recs == PrefillHistory[pre] IN
        [port \in C26_PortsOf(recs) |-> C26_CountedFor(recs, port)]]

C26_PortStep ==
    LET ports == DOMAIN stats.port_activity \cup DOMAIN stats'.port_activity IN
    IF cpc = "track_activity" /\ cpc' = "track_connections"
    THEN LET p == packet_info[1]
             port == IF IsSome(p.dst_port) THEN p.dst_port
                     ELSE IF IsSome(p.src_port) THEN p.src_port
                     ELSE None
         IN \A q \in ports :
                C26_Count(stats'.port_activity, q) =
                    C26_Count(stats.port_activity, q) + (IF port = Some(q) THEN 1 ELSE 0)
    ELSE stats'.port_activity = stats.port_activity

C26_PortsSoFar ==
    LET done == Passed(BeforeAlert)
        pre == C26_PrefillPorts[base]
        ports == DOMAIN pre \cup C26_PortsOf(done)
    IN /\ DOMAIN stats.port_activity = ports
       /\ \A q \in ports :
            stats.port_activity[q] = C26_Count(pre, q) + C26_CountedFor(done, q)
       /\ SumOver(stats.port_activity, ports) =
            SumOver(pre, DOMAIN pre)
                + Cardinality({i \in 1..Len(done) :
                                 IsSome(done[i].dst_port) \/ IsSome(done[i].src_port)})

C26_OnePortPerRecord == [](C26_PortsSoFar) /\ [][C26_PortStep]_vars

\* A record without ports and then one with both: its destination port
\* alone is counted.
C26_Witness ==
    /\ cpc = "loop"
    /\ base.n = 0
    /\ Len(hist) = 2
    /\ hist[1].dst_port = None /\ hist[1].src_port = None
    /\ IsSome(hist[2].dst_port) /\ IsSome(hist[2].src_port)
    /\ hist[2].dst_port # hist[2].src_port
    /\ DOMAIN stats.port_activity = {Unwrap(hist[2].dst_port)}
    /\ stats.port_activity[Unwrap(hist[2].dst_port)] = 1

\* C27: the classifier scores one port: the destination port when the
\* record has one, whatever its source port, and the source port only when
\* it has no destination port; a record with source port 3389 and an
\* unlisted destination port below 49153 gets nothing for its ports.
C27_Listed(port) ==
    CASE port \in {1433, 3389, 5900, 23, 135, 139, 445} -> 3
      [] port \in {21, 25, 110, 143, 993, 995} -> 2
      [] OTHER -> IF port > 49152 THEN 1 ELSE 0
C27_Rest(p) ==
    NonPrivateIncrement(p) + PatternIncrement(p) + C15_SizeSignal(p) + C15_ProtocolSignal(p)

C27_OnePortScored ==
    (call.fn = "detect_threat_level" /\ ret # None) =>
        LET p == call.packet_info IN
        /\ p.dst_port # None => ret[1] = C15_Level(C27_Listed(p.dst_port[1]) + C27_Rest(p))
        /\ (p.dst_port = None /\ p.src_port # None) =>
                ret[1] = C15_Level(C27_Listed(p.src_port[1]) + C27_Rest(p))
        /\ (p.dst_port = None /\ p.src_port = None) => ret[1] = C15_Level(C27_Rest(p))
        /\ (/\ p.src_port = Some(3389) /\ p.dst_port # None
            /\ p.dst_port[1] < 49153 /\ C27_Listed(p.dst_port[1]) = 0)
                => ret[1] = C15_Level(C27_Rest(p))

\* A 100-byte TCP record from port 3389 to port 80 of a private address is
\* Safe; the same record without its destination port is Low.
C27_Witness ==
    /\ call.fn = "detect_threat_level"
    /\ call.packet_info.protocol = "TCP"
    /\ call.packet_info.packet_size = 100
    /\ call.packet_info.src_port = Some(3389)
    /\ call.packet_info.dst_port = Some(80)
    /\ call.packet_info.dst_ip = Some(<<192, 168, 1, 1>>)
    /\ ret = Some("Safe")

\* The source port alone is scored when there is no destination port.
C27_WitnessSourceOnly ==
    /\ call.fn = "detect_threat_level"
    /\ call.packet_info.protocol = "TCP"
    /\ call.packet_info.packet_size = 100
    /\ call.packet_info.src_port = Some(3389)
    /\ call.packet_info.dst_port = None
    /\ call.packet_info.dst_ip = Some(<<192, 168, 1, 1>>)
    /\ ret = Some("Low")

\* C28: the +2 for a destination that starts with "10.0.0." or "169.254."
\* is added whatever the private-range check gives: a "10.0.0." destination
\* adds 2 and nothing for being public, a "169.254." destination adds 2 and
\* what the private-range check adds, any other destination adds what the
\* private-range check adds alone.
C28_Others(p) == C15_PortSignal(p) + C15_SizeSignal(p) + C15_ProtocolSignal(p)
C28_PrivateCheck(ip) == IF is_private_ip(ip) THEN 0 ELSE 1

C28_PrefixIncrementIsIndependent ==
    (call.fn = "detect_threat_level" /\ ret # None /\ call.packet_info.dst_ip # None) =>
        LET p == call.packet_info
            ip == p.dst_ip[1]
        IN CASE <<ip[1], ip[2], ip[3]>> = <<10, 0, 0>> ->
                    ret[1] = C15_Level(C28_Others(p) + 2)
             [] <<ip[1], ip[2]>> = <<169, 254>> ->
                    ret[1] = C15_Level(C28_Others(p) + 2 + C28_PrivateCheck(ip))
             [] OTHER -> ret[1] = C15_Level(C28_Others(p) + C28_PrivateCheck(ip))

\* A 100-byte TCP record to port 80 of 10.0.0.7 is Low, with a score of 2.
C28_Witness ==
    /\ call.fn = "detect_threat_level"
    /\ call.packet_info.protocol = "TCP"
    /\ call.packet_info.packet_size = 100
    /\ call.packet_info.dst_port = Some(80)
    /\ call.packet_info.dst_ip = Some(<<10, 0, 0, 7>>)
    /\ ret = Some("Low")

\* C29: whenever the capture thread is not inside the stats block of an
\* Ingest, so after every Ingest, current_connections is the number of keys
\* of the connections table.
C29_ConnectionsCounted ==
    cpc \notin InStats => stats.current_connections = Cardinality(DOMAIN stats.connections)

\* Two records of two flows have been ingested into empty stats, with no
\* bandwidth point due.
C29_Witness ==
    /\ cpc = "loop"
    /\ base.n = 0
    /\ Len(hist) = 2
    /\ pushed_points = <<>>
    /\ Cardinality(DOMAIN stats.connections) = 2
    /\ stats.current_connections = 2

\* C30: peak_bandwidth and peak_packets_per_sec never decrease; each is the
\* largest of its rate over all the bandwidth points ever pushed, those
\* trimmed from bandwidth_history included (0 before the first), so at
\* least the rate of every point still in bandwidth_history; the rates of a
\* point pushed are total_bytes and total_packets, as they are after the
\* record, over the whole seconds since start_time.
C30_Same(a, b) == a.num * b.den = b.num * a.den
C30_IsLargest(peak, rates) ==
    /\ \A r \in rates : ~RateGt(r, peak)
    /\ \E r \in rates \cup {ZeroRate} : C30_Same(r, peak)

C30_PeaksSoFar ==
    /\ C30_IsLargest(stats.peak_bandwidth,
                     {pushed_points[i].bytes_per_sec : i \in 1..Len(pushed_points)})
    /\ C30_IsLargest(stats.peak_packets_per_sec,
                     {pushed_points[i].packets_per_sec : i \in 1..Len(pushed_points)})
    /\ \A i \in 1..Len(stats.bandwidth_history) :
        /\ ~RateGt(stats.bandwidth_history[i].bytes_per_sec, stats.peak_bandwidth)
        /\ ~RateGt(stats.bandwidth_history[i].packets_per_sec, stats.peak_packets_per_sec)

C30_PeakStep ==
    /\ ~RateGt(stats.peak_bandwidth, stats'.peak_bandwidth)
    /\ ~RateGt(stats.peak_packets_per_sec, stats'.peak_packets_per_sec)
    /\ Len(pushed_points') > Len(pushed_points) =>
        LET point == pushed_points'[Len(pushed_points')]
            seconds == clock - stats.start_time
        IN /\ seconds > 0
           /\ point.bytes_per_sec.num * seconds = stats'.total_bytes * point.bytes_per_sec.den
           /\ point.packets_per_sec.num * seconds =
                stats'.total_packets * point.packets_per_sec.den
           /\ stats'.total_packets = base.n + Len(hist)

C30_PeaksAreHistoricMaxima == [](C30_PeaksSoFar) /\ [][C30_PeakStep]_vars

\* A point has been pushed whose rates are below the peaks, after the
\* point that set them has been trimmed from bandwidth_history.
C30_Witness ==
    /\ cpc = "loop"
    /\ Len(pushed_points) = BandwidthCap + 1
    /\ Len(stats.bandwidth_history) = BandwidthCap
    /\ LET last == stats.bandwidth_history[BandwidthCap] IN
        /\ last = pushed_points[BandwidthCap + 1]
        /\ RateGt(stats.peak_bandwidth, last.bytes_per_sec)
        /\ RateGt(stats.peak_packets_per_sec, last.packets_per_sec)
        /\ C30_Same(stats.peak_packets_per_sec, pushed_points[BandwidthCap].packets_per_sec)

\* C31 (as claimed): every size of packet_sizes is in exactly one of the
\* buckets below 100, 100 to below 500, 500 to below 1500, 1500 and more,
\* so the four counts add up to the number of sizes; and the view prints,
\* for each of the four buckets, its count and its percentage.
C31_BucketOf(size) ==
    CASE size < 100 -> 1
      [] size >= 100 /\ size < 500 -> 2
      [] size >= 500 /\ size < 1500 -> 3
      [] OTHER -> 4
C31_InBucket(sizes, b) == Cardinality({i \in 1..Len(sizes) : C31_BucketOf(sizes[i]) = b})

C31_FourBucketsRendered ==
    (call.fn = "display_packet_size_analysis" /\ ret # None /\ call.packet_sizes # <<>>) =>
        LET sizes == call.packet_sizes
            printed == ret[1]
        IN /\ \A b \in 1..4 : printed.counted[b] = C31_InBucket(sizes, b)
           /\ printed.counted[1] + printed.counted[2] + printed.counted[3]
                + printed.counted[4] = Len(sizes)
           /\ Len(printed.rows) = 4
           /\ \A b \in 1..4 :
                printed.rows[b].percent = (C31_InBucket(sizes, b) * 100) \div Len(sizes)

\* The part of C31 that the code has: the four counts partition the sizes.
C31_CountsPartitionSizes ==
    (call.fn = "display_packet_size_analysis" /\ ret # None /\ call.packet_sizes # <<>>) =>
        LET sizes == call.packet_sizes
            printed == ret[1]
        IN /\ \A b \in 1..4 : printed.counted[b] = C31_InBucket(sizes, b)
           /\ printed.counted[1] + printed.counted[2] + printed.counted[3]
                + printed.counted[4] = Len(sizes)
           /\ Len(printed.rows) = 3
           /\ printed.rows[3].percent =
                ((C31_InBucket(sizes, 3) + C31_InBucket(sizes, 4)) * 100) \div Len(sizes)

\* C32 (as claimed): whenever display_dashboard prints, the records ever
\* appended to the recent-record buffer are as many as total_packets, and,
\* while neither list has been trimmed, the buffer has as many records of
\* each level above Safe as threat_alerts has alerts of that level.
C32_OfLevel(recs, level) ==
    Cardinality({i \in 1..Len(recs) : recs[i].threat_level = level})
C32_AlertsOfLevel(alerts, level) ==
    Cardinality({i \in 1..Len(alerts) : alerts[i][3] = level})

C32_RenderSeesSameRecords ==
    rpc = "print" =>
        /\ base.n + Len(Passed(BeforeRecent)) = stats.total_packets
        /\ (Len(captured_packets) < RecentCap /\ Len(stats.threat_alerts) < ThreatAlertsCap) =>
                \A level \in {"Low", "Medium", "High", "Critical"} :
                    C32_OfLevel(captured_packets, level)
                        = C32_AlertsOfLevel(stats.threat_alerts, level)

\* C33 (as claimed): with a port filter set, a frame with a parsable IPv4
\* packet (its TCP or UDP header, if it has one, parsable as well) is
\* accepted only if the packet is TCP or UDP with the filter's port as its
\* source or destination port, whatever the protocol filter, "http" and
\* "dns" included.
C33_HasPort(f, port) ==
    f.next \in {"Tcp", "Udp"} /\ f.l4_ok /\ (f.sport = port \/ f.dport = port)

C33_AcceptedPacketHasFilterPort ==
    (call.fn = "should_capture_packet" /\ ret = Some(TRUE)) =>
        LET f == call.packet
            a == call.args
            parsable == /\ f.eth_ok /\ f.ethertype = "Ipv4" /\ f.ip_ok
                        /\ (f.next \in {"Tcp", "Udp"} => f.l4_ok)
        IN (a.port # None /\ parsable) => C33_HasPort(f, a.port[1])

\* C34: should_capture_packet returns false for every frame whose Ethernet
\* header parses and whose ethertype is not IPv4, under every filter and
\* under none; so no record of either capture loop has the protocol "IPv6"
\* or the name of another ethertype, and the iteration that reads such a
\* frame leaves the records and packet_count, which the packet limit is
\* compared with, as they were.
C34_OtherEthertype(f) == f.eth_ok /\ f.ethertype # "Ipv4"
C34_IpProtocols == {"TCP", "UDP", "ICMP", "IPv4-IpNextHeaderProtocol(2)", "Unknown"}

C34_Rejected ==
    \A f \in FilterFrames \cup Frames : \A a \in FilterArgs :
        C34_OtherEthertype(f) => ~should_capture_packet(f, a)

C34_Records ==
    /\ \A i \in 1..Len(captured_packets) : captured_packets[i].protocol \in C34_IpProtocols
    /\ \A i \in 1..Len(hist) : hist[i].protocol \in C34_IpProtocols

C34_Iteration ==
    (/\ call.fn = "main" /\ call.pc = "loop" /\ call'.pc = "loop"
     /\ call'.packet # None /\ C34_OtherEthertype(call'.packet[1])) =>
        /\ packet_count' = packet_count
        /\ captured_packets' = captured_packets

C34_OnlyIpv4IsAccepted == [](C34_Rejected /\ C34_Records) /\ [][C34_Iteration]_vars

\* With no filter set, an ARP frame has been read after one record was
\* made: there is still one record and packet_count is 1.
C34_Witness ==
    /\ call.fn = "main" /\ call.pc = "loop"
    /\ args.protocol = None /\ args.port = None
    /\ call.packet = Some(FrameArp)
    /\ packet_count = 1
    /\ Len(captured_packets) = 1

\* C35: the capture is never started, in either mode, with a protocol
\* filter that is not one of tcp, udp, icmp, http, dns in any case of
\* letters: when main gets to the filter it ends the run with InvalidFilter
\* before start_sniffing or start_dashboard_mode is called, so no frame is
\* read and no record made under such a filter.
C35_Recognized(protocol) ==
    \E word \in {<<"t", "c", "p">>,
                 <<"u", "d", "p">>,
                 <<"i", "c", "m", "p">>,
                 <<"h", "t", "t", "p">>,
                 <<"d", "n", "s">>} :
        C18_Spells(protocol, word)
C35_Started ==
    call.pc \in {"start_dashboard_mode", "open", "loop", "summary", "export_json",
                 "export_csv", "stop"}

C35_FilterValidatedBeforeCapture ==
    call.fn = "main" =>
        /\ C35_Started => (args.protocol = None \/ C35_Recognized(args.protocol[1]))
        /\ (args.protocol # None /\ ~C35_Recognized(args.protocol[1])) =>
            /\ captured_packets = <<>> /\ hist = <<>>
            /\ \A i \in 1..Len(call.log) : call.log[i][1] # "start"
            /\ ret \in {None, Some("generated"), Some("GenerateConfigFailed"),
                         Some("listed"), Some("ConfigError"),
                         Some("LoggerError"), Some("InterfaceNotFound"),
                         Some("InvalidFilter")}
            /\ (/\ call.pc = "exit" /\ ~args.generate_config /\ ~args.list_interfaces
                /\ args.interface = Some("eth0")
                /\ ret \notin {Some("ConfigError"), Some("LoggerError")})
                    => ret = Some("InvalidFilter")

\* A dashboard run asked for with the filter "FTP" has ended with InvalidFilter.
C35_Witness ==
    /\ call.fn = "main"
    /\ call.pc = "exit"
    /\ args.protocol = Some(<<"F", "T", "P">>)
    /\ args.dashboard
    /\ ret = Some("InvalidFilter")

\* A capture has started with the filter "HTTP".
C35_WitnessStarted ==
    /\ call.fn = "main"
    /\ call.pc = "loop"
    /\ args.protocol = Some(<<"H", "T", "T", "P">>)
    /\ Len(captured_packets) = 1

\* C36: the records of one run of start_sniffing are numbered 1, 2, ..., N
\* in the order they were captured, and packet_count is N: a rejected frame
\* takes no number, the i-th accepted frame gets the number i; the same in
\* the capture thread of the dashboard.
C36_NumbersSoFar ==
    call.fn = "main" =>
        /\ ~args.dashboard => packet_count = Len(captured_packets)
        /\ \A i \in 1..Len(captured_packets) : captured_packets[i].packet_number = i

C36_NumberStep ==
    /\ Len(captured_packets') \in {Len(captured_packets), Len(captured_packets) + 1}
    /\ Len(captured_packets') = Len(captured_packets) + 1 =>
        /\ SubSeq(captured_packets', 1, Len(captured_packets)) = captured_packets
        /\ captured_packets'[Len(captured_packets')].packet_number = packet_count + 1
    /\ (Len(captured_packets') = Len(captured_packets) /\ ~args.dashboard) =>
            packet_count' = packet_count

C36_RecordsNumberedInOrder == [](C36_NumbersSoFar) /\ [][C36_NumberStep]_vars

\* A run under the filter "udp", which rejects some of the frames, has
\* ended with two records, numbered 1 and 2.
C36_Witness ==
    /\ call.fn = "main"
    /\ call.pc = "exit"
    /\ args.protocol = Some(<<"u", "d", "p">>)
    /\ Len(captured_packets) = 2
    /\ captured_packets[1].packet_number = 1
    /\ captured_packets[2].packet_number = 2
    /\ captured_packets[1].protocol # captured_packets[2].protocol
    /\ ret = Some("Ok")

\* C36, in the capture thread of the dashboard: the records accepted in a
\* behaviour continue the numbers of those before it.
C36_DashboardNumbers ==
    \A i \in 1..Len(hist) : hist[i].packet_number = base.n + i

\* C37 (as claimed): in start_sniffing a failed read ends the loop and is
\* not returned as an error: when the function has returned after it, the
\* records captured before it have been summarized and written to every
\* export path asked for, and it has returned Ok; the only error returned
\* before anything is summarized or exported is that of the channel
\* creation, with nothing captured.
C37_Requested == {x \in {"json", "csv"} :
                    IF x = "json" THEN args.export_json # None ELSE args.export_csv # None}

C37_AfterReadFailure ==
    (call.fn = "main" /\ ~args.dashboard /\ failure = "read" /\ call.pc = "exit") =>
        /\ call.summary = Some(captured_packets)
        /\ \A x \in C37_Requested : call.files[x] = Some(captured_packets)
        /\ ret = Some("Ok")

C37_OnlyChannelErrorBeforeCapture ==
    (call.fn = "main" /\ ret = Some("NetworkError")) =>
        /\ failure = "open"
        /\ captured_packets = <<>>
        /\ call.summary = None
        /\ call.attempted = {}

C37_ReadFailureStillExports == C37_AfterReadFailure /\ C37_OnlyChannelErrorBeforeCapture

\* C38 (as claimed): with both export paths asked for, a failure of the
\* JSON export does not keep the CSV export of the same records from being
\* attempted, nor the capture-stop entry from being logged.
C38_JsonFailed ==
    /\ call.pc = "exit"
    /\ "JSON" \in call.attempted
    /\ call.files.json = None

C38_ExportsAreIndependent ==
    (call.fn = "main" /\ args.export_json # None /\ args.export_csv # None /\ C38_JsonFailed) =>
        /\ "CSV" \in call.attempted
        /\ \E i \in 1..Len(call.log) : call.log[i][1] = "stop"

\* C39: whenever the capture thread is not inside the stats block of an
\* Ingest, the counts of protocol_counts add up to total_packets, the
\* counts of top_talkers add up to the number of ingested records that
\* have a source address, and packet_sizes has min(total_packets, 1000)
\* elements.
C39_WithSource(recs) == Cardinality({i \in 1..Len(recs) : recs[i].src_ip # None})
C39_PrefillWithSource == [pre \in Prefills |-> C39_WithSource(PrefillHistory[pre])]

C39_CountersAgreeWithTotals ==
    cpc \notin InStats =>
        /\ SumOver(stats.protocol_counts, DOMAIN stats.protocol_counts) = stats.total_packets
        /\ SumOver(stats.top_talkers, DOMAIN stats.top_talkers)
                = C39_PrefillWithSource[base] + C39_WithSource(Passed({"lock_stats", "poisoned_stats"}))
        /\ Len(stats.packet_sizes) =
                (IF stats.total_packets < 1000 THEN stats.total_packets ELSE 1000)

\* A record without addresses, of protocol "Unknown", and a TCP record
\* have been ingested into empty stats.
C39_Witness ==
    /\ cpc = "loop"
    /\ base.n = 0
    /\ Len(hist) = 2
    /\ hist[1].src_ip = None /\ hist[1].protocol = "Unknown"
    /\ hist[2].src_ip # None /\ hist[2].protocol = "TCP"
    /\ stats.total_packets = 2
    /\ DOMAIN stats.protocol_counts = {"Unknown", "TCP"}
    /\ Cardinality(DOMAIN stats.top_talkers) = 1
    /\ Len(stats.packet_sizes) = 2

\* packet_sizes is full and stays at 1000 elements.
C39_WitnessFull ==
    /\ cpc = "loop"
    /\ Len(hist) = 1
    /\ stats.total_packets > 1000
    /\ Len(stats.packet_sizes) = 1000

====
